---- MODULE Spec2Model ----
(***************************************************************************)
(* A model of datafusion-postgres: the session service (Simple and         *)
(* Extended Query handlers, transaction status, SET/SHOW, permission       *)
(* checks), the auth manager's role graph, and the pg_catalog OID cache.   *)
(*                                                                         *)
(* SQL text is a sequence of one-character strings, so that to_lowercase,  *)
(* trim, starts_with and split_whitespace do what the Rust code does.      *)
(***************************************************************************)
EXTENDS Integers, Sequences, FiniteSets, TLC

VARIABLES
    phase,          \* per session: "new" before startup, "ready" after AuthenticationOk
    meta_user,      \* per session: metadata["user"] ("" when absent)
    meta_timeout,   \* per session: metadata["statement_timeout_ms"] (<<>> when absent)
    txn,            \* per session: ClientInfo::transaction_status()
    stmt,           \* per session: the unnamed prepared statement (sql, plan kind)
    timezone,       \* DfSessionService.timezone, one Arc<Mutex<String>> per service
    last,           \* the last message handled and its answer
    users,          \* AuthManager.users
    roles,          \* AuthManager.roles
    chk,            \* a running check_permission call: its recursion stack
    boot,           \* the task new_with_config spawns, and a wait_for_initialization call
    live,           \* the engine's catalog list: the catalogs, schemas and tables registered
    oid_counter,    \* PgCatalogSchemaProvider.oid_counter
    oid_cache,      \* PgCatalogSchemaProvider.oid_cache
    lock,           \* holder of oid_cache's write lock ("none" when free)
    scan,           \* per scanner task: position in get_data and its local map
    seen,           \* per object: the OID the last scan reporting it gave (0: none)
    attseen,        \* per table: the attrelid the last pg_attribute scan gave (0: none)
    assigned,       \* every OID drawn from oid_counter so far
    probe           \* the last library call made directly: its arguments and its result

sessVars == <<phase, meta_user, meta_timeout, txn, stmt, timezone, last>>
authVars == <<users, roles, chk, boot>>
catVars == <<live, oid_counter, oid_cache, lock, scan, seen, attseen, assigned>>
libVars == <<probe>>
vars == <<sessVars, authVars, catVars, libVars>>

(***************************************************************************)
(* Strings                                                                 *)
(***************************************************************************)
UpperChars == <<"A", "B", "C", "D", "E", "F", "G", "H", "I", "J", "K", "L", "M",
                "N", "O", "P", "Q", "R", "S", "T", "U", "V", "W", "X", "Y", "Z">>
LowerChars == <<"a", "b", "c", "d", "e", "f", "g", "h", "i", "j", "k", "l", "m",
                "n", "o", "p", "q", "r", "s", "t", "u", "v", "w", "x", "y", "z">>
Digits == <<"0", "1", "2", "3", "4", "5", "6", "7", "8", "9">>

SetMin(S) == CHOOSE x \in S : \A y \in S : x <= y
SetMax(S) == CHOOSE x \in S : \A y \in S : x >= y

\* char::to_lowercase on the ASCII letters
LowerOf ==
    [c \in {UpperChars[k] : k \in DOMAIN UpperChars} |->
        LowerChars[CHOOSE k \in DOMAIN UpperChars : UpperChars[k] = c]]

\* str::to_lowercase
to_lowercase(s) ==
    [i \in 1..Len(s) |-> IF s[i] \in DOMAIN LowerOf THEN LowerOf[s[i]] ELSE s[i]]

\* str::trim_matches(c in cs): strips the characters of cs from both ends
trim_matches(s, cs) ==
    LET keep == {i \in 1..Len(s) : s[i] \notin cs}
    IN  IF keep = {} THEN <<>> ELSE SubSeq(s, SetMin(keep), SetMax(keep))

WhiteSpace == {" ", "\t", "\n"}

\* str::trim
trim(s) == trim_matches(s, WhiteSpace)

\* str::starts_with / str::ends_with
starts_with(s, p) == Len(p) <= Len(s) /\ SubSeq(s, 1, Len(p)) = p
ends_with(s, p) == Len(p) <= Len(s) /\ SubSeq(s, Len(s) - Len(p) + 1, Len(s)) = p

\* str::trim_end_matches(pattern): removes the suffix as often as it occurs
RECURSIVE trim_end_matches(_, _)
trim_end_matches(s, p) ==
    IF p # <<>> /\ ends_with(s, p)
    THEN trim_end_matches(SubSeq(s, 1, Len(s) - Len(p)), p)
    ELSE s

\* str::split_whitespace
RECURSIVE split_whitespace(_)
split_whitespace(s) ==
    LET words(t) ==
            LET ws == {i \in 1..Len(t) : t[i] \in WhiteSpace}
            IN  IF t = <<>> THEN <<>>
                ELSE IF ws = {} THEN <<t>>
                ELSE <<SubSeq(t, 1, SetMin(ws) - 1)>>
                     \o split_whitespace(SubSeq(t, SetMin(ws), Len(t)))
    IN  words(trim(s))

\* [String]::join(sep)
RECURSIVE join(_, _)
join(ws, sep) ==
    IF ws = <<>> THEN <<>>
    ELSE IF Len(ws) = 1 THEN ws[1]
    ELSE ws[1] \o sep \o join(Tail(ws), sep)

\* str::parse::<u64>: the value, or -1 for Err
RECURSIVE parse_u64(_)
parse_u64(s) ==
    IF s = <<>> \/ \E i \in 1..Len(s) : \A d \in DOMAIN Digits : Digits[d] # s[i]
    THEN -1
    ELSE IF Len(s) = 1 THEN (CHOOSE d \in DOMAIN Digits : Digits[d] = s[1]) - 1
    ELSE 10 * parse_u64(SubSeq(s, 1, Len(s) - 1))
         + (CHOOSE d \in DOMAIN Digits : Digits[d] = s[Len(s)]) - 1

\* u128::to_string
RECURSIVE to_string(_)
to_string(n) ==
    IF n < 10 THEN <<Digits[n + 1]>>
    ELSE to_string(n \div 10) \o <<Digits[(n % 10) + 1]>>

(***************************************************************************)
(* The words the handlers compare SQL text with, and the SQL the model's   *)
(* clients send                                                            *)
(***************************************************************************)
Kw == [
    begin |-> <<"b", "e", "g", "i", "n">>,
    begin_transaction |-> <<"b", "e", "g", "i", "n", " ", "t", "r", "a", "n", "s", "a", "c", "t", "i", "o", "n">>,
    begin_work |-> <<"b", "e", "g", "i", "n", " ", "w", "o", "r", "k">>,
    start_transaction |-> <<"s", "t", "a", "r", "t", " ", "t", "r", "a", "n", "s", "a", "c", "t", "i", "o", "n">>,
    commit |-> <<"c", "o", "m", "m", "i", "t">>,
    commit_transaction |-> <<"c", "o", "m", "m", "i", "t", " ", "t", "r", "a", "n", "s", "a", "c", "t", "i", "o", "n">>,
    commit_work |-> <<"c", "o", "m", "m", "i", "t", " ", "w", "o", "r", "k">>,
    end |-> <<"e", "n", "d">>,
    end_transaction |-> <<"e", "n", "d", " ", "t", "r", "a", "n", "s", "a", "c", "t", "i", "o", "n">>,
    rollback |-> <<"r", "o", "l", "l", "b", "a", "c", "k">>,
    rollback_transaction |-> <<"r", "o", "l", "l", "b", "a", "c", "k", " ", "t", "r", "a", "n", "s", "a", "c", "t", "i", "o", "n">>,
    rollback_work |-> <<"r", "o", "l", "l", "b", "a", "c", "k", " ", "w", "o", "r", "k">>,
    abort |-> <<"a", "b", "o", "r", "t">>,
    set |-> <<"s", "e", "t">>,
    show |-> <<"s", "h", "o", "w">>,
    start |-> <<"s", "t", "a", "r", "t">>,
    select |-> <<"s", "e", "l", "e", "c", "t">>,
    insert |-> <<"i", "n", "s", "e", "r", "t">>,
    update |-> <<"u", "p", "d", "a", "t", "e">>,
    delete |-> <<"d", "e", "l", "e", "t", "e">>,
    create_table |-> <<"c", "r", "e", "a", "t", "e", " ", "t", "a", "b", "l", "e">>,
    create_view |-> <<"c", "r", "e", "a", "t", "e", " ", "v", "i", "e", "w">>,
    drop |-> <<"d", "r", "o", "p">>,
    alter |-> <<"a", "l", "t", "e", "r">>,
    insert_into |-> <<"i", "n", "s", "e", "r", "t", " ", "i", "n", "t", "o">>,
    from |-> <<"f", "r", "o", "m">>,
    into |-> <<"i", "n", "t", "o">>,
    table |-> <<"t", "a", "b", "l", "e">>,
    time_zone |-> <<"t", "i", "m", "e", "_", "z", "o", "n", "e">>,
    timezone |-> <<"t", "i", "m", "e", "z", "o", "n", "e">>,
    statement_timeout |-> <<"s", "t", "a", "t", "e", "m", "e", "n", "t", "_", "t", "i", "m", "e", "o", "u", "t">>,
    ms |-> <<"m", "s">>,
    s |-> <<"s">>,
    min |-> <<"m", "i", "n">>,
    time |-> <<"t", "i", "m", "e">>,
    zone |-> <<"z", "o", "n", "e">>]

\* The SQL texts clients send in the model
Sql == [
    begin |-> <<"B", "E", "G", "I", "N">>,
    commit |-> <<"C", "O", "M", "M", "I", "T">>,
    rollback |-> <<"R", "O", "L", "L", "B", "A", "C", "K">>,
    end_ |-> <<"e", "n", "d">>,
    abort |-> <<"A", "B", "O", "R", "T">>,
    select |-> <<"S", "E", "L", "E", "C", "T", " ", "*", " ", "F", "R", "O", "M", " ", "t", "1">>,
    insert |-> <<"I", "N", "S", "E", "R", "T", " ", "I", "N", "T", "O", " ", "t", "1", " ", "V", "A", "L", "U", "E", "S", " ", "(", "1", ")">>,
    set_timeout |-> <<"S", "E", "T", " ", "s", "t", "a", "t", "e", "m", "e", "n", "t", "_", "t", "i", "m", "e", "o", "u", "t", " ", "=", " ", "'", "5", "0", "0", "0", "m", "s", "'">>,
    show_timeout |-> <<"S", "H", "O", "W", " ", "s", "t", "a", "t", "e", "m", "e", "n", "t", "_", "t", "i", "m", "e", "o", "u", "t">>,
    set_tz |-> <<"S", "E", "T", " ", "t", "i", "m", "e", "z", "o", "n", "e", " ", "=", " ", "'", "P", "S", "T", "'">>,
    show_tz |-> <<"S", "H", "O", "W", " ", "T", "I", "M", "E", " ", "Z", "O", "N", "E">>,
    bad |-> <<"S", "E", "L", "E", "C", " ", "1">>]

Queries == {Sql[f] : f \in DOMAIN Sql}

Sessions == {"s1", "s2"}
StartupUsers == {"postgres", "alice", "ghost"}
EngineOutcomes == {"ok", "error"}

(***************************************************************************)
(* Auth manager: users, roles, grants, check_permission                    *)
(***************************************************************************)
ResAll == [kind |-> "All", name |-> <<>>]
ResTable(n) == [kind |-> "Table", name |-> n]
ResSchema(n) == [kind |-> "Schema", name |-> n]

\* AuthConfig::default
config == [require_passwords |-> FALSE, allow_empty_passwords |-> TRUE]

\* The users and roles after construction: the postgres superuser and role, the
\* predefined roles with their grants, and a user added with add_user
DefaultUsers ==
    [u \in {"postgres", "alice"} |->
        IF u = "postgres"
        THEN [password_hash |-> <<>>, roles |-> <<"postgres">>,
              is_superuser |-> TRUE, can_login |-> TRUE]
        ELSE [password_hash |-> <<"p", "w">>, roles |-> <<"readonly">>,
              is_superuser |-> FALSE, can_login |-> TRUE]]

Grant(p, r) == [permission |-> p, resource |-> r]

DefaultRoles ==
    [r \in {"postgres", "readonly", "readwrite", "dbadmin"} |->
        CASE r = "postgres" ->
                [is_superuser |-> TRUE, grants |-> <<Grant("All", ResAll)>>,
                 inherited_roles |-> <<>>]
          [] r = "readonly" ->
                [is_superuser |-> FALSE, grants |-> <<Grant("Select", ResAll)>>,
                 inherited_roles |-> <<>>]
          [] r = "readwrite" ->
                [is_superuser |-> FALSE,
                 grants |-> <<Grant("Select", ResAll), Grant("Insert", ResAll),
                              Grant("Update", ResAll), Grant("Delete", ResAll)>>,
                 inherited_roles |-> <<>>]
          [] r = "dbadmin" ->
                [is_superuser |-> FALSE, grants |-> <<Grant("All", ResAll)>>,
                 inherited_roles |-> <<>>]]

\* AuthManager::authenticate without its can_login test
authenticate_any_login(cfg, user_map, username, password) ==
    /\ username \in DOMAIN user_map
    /\ IF cfg.require_passwords
       THEN password # <<>> /\ password = user_map[username].password_hash
       ELSE IF user_map[username].password_hash = <<>>
       THEN cfg.allow_empty_passwords \/ password = <<>>
       ELSE password = user_map[username].password_hash

\* AuthManager::authenticate on a manager with configuration cfg and user map
\* user_map: TRUE for Ok(true), FALSE for Ok(false)
authenticate_on(cfg, user_map, username, password) ==
    IF username \in DOMAIN user_map
    THEN LET user == user_map[username]
         IN  IF ~user.can_login THEN FALSE
             ELSE IF cfg.require_passwords
             THEN IF password = <<>> THEN FALSE
                  ELSE IF user.password_hash = <<>> THEN FALSE
                  ELSE password = user.password_hash
             ELSE IF user.password_hash = <<>>
                  THEN cfg.allow_empty_passwords \/ password = <<>>
                  ELSE password = user.password_hash
    ELSE FALSE

\* AuthManager::authenticate on the server's manager
authenticate(username, password) == authenticate_on(config, users, username, password)

\* AuthManager::permission_matches
permission_matches(grant_permission, requested) ==
    grant_permission = requested \/ grant_permission = "All"

\* resource_matches without its rule for schema grants
resource_matches_exact(grant_resource, requested) ==
    IF grant_resource = requested THEN TRUE
    ELSE grant_resource.kind = "All"

\* AuthManager::resource_matches
resource_matches(grant_resource, requested) ==
    IF grant_resource = requested THEN TRUE
    ELSE IF grant_resource.kind = "All" THEN TRUE
    ELSE IF grant_resource.kind = "Schema" /\ requested.kind = "Table"
    THEN starts_with(requested.name, grant_resource.name \o <<".">>)
    ELSE FALSE

\* The "Check direct grants" loop of check_permission and check_role_permission
grants_allow(role, permission, resource) ==
    \E i \in DOMAIN role.grants :
        /\ permission_matches(role.grants[i].permission, permission)
        /\ resource_matches(role.grants[i].resource, resource)

\* The auth manager a service is built with: its users and roles maps
DefaultAuth == [users |-> DefaultUsers, roles |-> DefaultRoles]

\* AuthManager::check_role_permission, as one evaluation over the role map of auth
RECURSIVE check_role_permission(_, _, _, _)
check_role_permission(auth, role_name, permission, resource) ==
    IF role_name \in DOMAIN auth.roles
    THEN LET role == auth.roles[role_name]
         IN  \/ role.is_superuser
             \/ grants_allow(role, permission, resource)
             \/ \E i \in DOMAIN role.inherited_roles :
                    check_role_permission(auth, role.inherited_roles[i], permission, resource)
    ELSE FALSE

\* AuthManager::check_permission, as one evaluation over the maps of auth
check_permission(auth, username, permission, resource) ==
    IF username \in DOMAIN auth.users
    THEN LET user == auth.users[username]
         IN  \/ user.is_superuser
             \/ \E i \in DOMAIN user.roles :
                    check_role_permission(auth, user.roles[i], permission, resource)
    ELSE FALSE

(***************************************************************************)
(* Session service: responses, SQL parsing, SET/SHOW, transactions         *)
(***************************************************************************)
\* pgwire Response / PgWireError values a handler returns. kind "None" is Ok(None).
Resp(k, c) == [kind |-> k, code |-> c, value |-> <<>>]
RespQuery(v) == [kind |-> "Query", code |-> "SELECT", value |-> v]
RespErr(c) == Resp("Error", c)
RespNone == Resp("None", "")

\* sqlparser's parse_statement on the text of one statement: SetVariable
\* {variables, value}, ShowVariable {variable}, any other statement, or a
\* parser error
parse_statement(sql) ==
    LET statement(words, first) ==
            LET no == [ok |-> FALSE, kind |-> "Error", words |-> words,
                       variable |-> <<>>, value |-> <<>>]
            IN  IF words = <<>> THEN [no EXCEPT !.ok = TRUE, !.kind = "Empty"]
                ELSE IF first = Kw.set
                THEN IF Len(words) >= 4 /\ words[3] = <<"=">>
                     THEN [no EXCEPT !.ok = TRUE, !.kind = "SetVariable",
                                     !.variable = <<words[2]>>,
                                     !.value = SubSeq(words, 4, Len(words))]
                     ELSE no
                ELSE IF first = Kw.show
                THEN IF Len(words) >= 2
                     THEN [no EXCEPT !.ok = TRUE, !.kind = "ShowVariable",
                                     !.variable = SubSeq(words, 2, Len(words))]
                     ELSE no
                ELSE IF first \in {Kw.select, Kw.insert, Kw.update, Kw.delete, Kw.drop,
                                   Kw.alter, Kw.begin, Kw.commit, Kw.rollback, Kw.start,
                                   Kw.end}
                THEN [no EXCEPT !.ok = TRUE, !.kind = "Other"]
                ELSE no
        tokens(words) ==
            statement(words, IF words = <<>> THEN <<>> ELSE to_lowercase(words[1]))
    IN  tokens(split_whitespace(sql))

\* The texts of the statements of an input: what stands between semicolons,
\* blank stretches dropped
RECURSIVE split_statements(_)
split_statements(sql) ==
    LET semicolons == {i \in 1..Len(sql) : sql[i] = ";"}
        piece(text) == IF trim(text) = <<>> THEN <<>> ELSE <<text>>
    IN  IF semicolons = {} THEN piece(sql)
        ELSE piece(SubSeq(sql, 1, SetMin(semicolons) - 1))
             \o split_statements(SubSeq(sql, SetMin(semicolons) + 1, Len(sql)))

\* crate::sql::parse: the statements of the input in order, or the error of
\* the first one that does not parse
parse_statements(sql) ==
    LET parsed(texts) ==
            LET all == [k \in DOMAIN texts |-> parse_statement(texts[k])]
                bad == {k \in DOMAIN all : ~all[k].ok}
            IN  IF bad = {} THEN [ok |-> TRUE, statements |-> all]
                ELSE [ok |-> FALSE, statements |-> <<all[SetMin(bad)]>>]
    IN  parsed(split_statements(sql))

\* The first statement of crate::sql::parse(sql), which is what the handlers
\* take from the list: kind "Empty" stands for the empty list, and ok is FALSE
\* for a parser error
parse(sql) ==
    LET first(all) ==
            IF all.statements = <<>> THEN parse_statement(<<>>)
            ELSE all.statements[1]
    IN  first(parse_statements(sql))

\* Statement::to_string: the statement's tokens separated by single spaces
statement_to_string(st) == join(st.words, <<" ">>)

\* DfSessionService::get_statement_timeout: Some(ms) as ms, None as -1
get_statement_timeout(metadata_timeout) ==
    IF metadata_timeout = <<>> THEN -1 ELSE parse_u64(metadata_timeout)

\* DfSessionService::set_statement_timeout: the metadata value stored (<<>>: key removed)
set_statement_timeout(timeout) ==
    IF timeout >= 0 THEN to_string(timeout) ELSE <<>>

\* The statement_timeout arm of handle_set_statement_structured: Some(ms) as ms, None as -1
timeout_of(val_str) ==
    LET timeout_str == trim_matches(trim_matches(val_str, {"\""}), {"'"})
        timeout_ms ==
            IF ends_with(timeout_str, Kw.ms)
            THEN parse_u64(trim_end_matches(timeout_str, Kw.ms))
            ELSE IF ends_with(timeout_str, Kw.s)
            THEN LET n == parse_u64(trim_end_matches(timeout_str, Kw.s))
                 IN  IF n < 0 THEN -1 ELSE n * 1000
            ELSE IF ends_with(timeout_str, Kw.min)
            THEN LET n == parse_u64(trim_end_matches(timeout_str, Kw.min))
                 IN  IF n < 0 THEN -1 ELSE n * 60 * 1000
            ELSE parse_u64(timeout_str)
    IN  IF timeout_str = <<"0">> \/ timeout_str = <<>> THEN -1
        ELSE IF timeout_ms > 0 THEN timeout_ms ELSE -1

\* What a handler call yields: the response, the service's timezone and the
\* session's timeout metadata after it, and the engine work done
Outcome(r, tz, to, w) == [resp |-> r, timezone |-> tz, meta_timeout |-> to, work |-> w]

\* In the handlers below, client is the connection's ClientInfo (its
\* transaction_status and the metadata entries "user" and "statement_timeout_ms")
\* and tz is the value held by the service's timezone mutex.

\* DfSessionService::handle_set_statement_structured
handle_set_statement_structured(client, tz, variables, value) ==
    LET var_name == IF variables = <<>> THEN <<>> ELSE to_lowercase(variables[1])
    IN  IF var_name \in {Kw.time_zone, Kw.timezone}
        THEN IF value # <<>>
             THEN Outcome(Resp("Execution", "SET"),
                          trim_matches(trim_matches(value[1], {"\""}), {"'"}),
                          client.statement_timeout, "none")
             ELSE Outcome(RespErr("42601"), tz, client.statement_timeout, "none")
        ELSE IF var_name = Kw.statement_timeout
        THEN IF value # <<>>
             THEN Outcome(Resp("Execution", "SET"), tz,
                          set_statement_timeout(timeout_of(value[1])), "none")
             ELSE Outcome(RespErr("42601"), tz, client.statement_timeout, "none")
        ELSE Outcome(Resp("Execution", "SET"), tz, client.statement_timeout, "planned")

\* DfSessionService::handle_show_statement_structured
handle_show_statement_structured(client, tz, variable) ==
    LET var_name == to_lowercase(join(variable, <<"_">>))
    IN  IF var_name \in {Kw.time_zone, Kw.timezone}
        THEN RespQuery(tz)
        ELSE IF var_name = Kw.statement_timeout
        THEN LET timeout == get_statement_timeout(client.statement_timeout)
             IN  RespQuery(IF timeout >= 0 THEN to_string(timeout) \o Kw.ms ELSE <<"0">>)
        ELSE RespQuery(<<>>)

\* DfSessionService::try_handle_structured_statement
try_handle_structured_statement(client, tz, st) ==
    IF st.kind = "SetVariable"
    THEN handle_set_statement_structured(client, tz, st.variable, st.value)
    ELSE IF st.kind = "ShowVariable"
    THEN Outcome(handle_show_statement_structured(client, tz, st.variable),
                 tz, client.statement_timeout, "none")
    ELSE Outcome(RespNone, tz, client.statement_timeout, "none")

BeginWords == {Kw.begin, Kw.begin_transaction, Kw.begin_work, Kw.start_transaction}
CommitWords == {Kw.commit, Kw.commit_transaction, Kw.commit_work, Kw.end, Kw.end_transaction}
RollbackWords == {Kw.rollback, Kw.rollback_transaction, Kw.rollback_work, Kw.abort}

\* A plausible slip: COMMIT in a failed transaction is refused like BEGIN
try_respond_transaction_statements_refusing(status, query_lower) ==
    LET q == trim(query_lower)
    IN  IF q \in BeginWords
        THEN CASE status = "Idle" -> Resp("TransactionStart", "BEGIN")
               [] status = "Transaction" -> Resp("Execution", "BEGIN")
               [] status = "Error" -> RespErr("25P01")
        ELSE IF q \in CommitWords
        THEN IF status \in {"Idle", "Transaction"}
             THEN Resp("TransactionEnd", "COMMIT")
             ELSE RespErr("25P01")
        ELSE IF q \in RollbackWords
        THEN Resp("TransactionEnd", "ROLLBACK")
        ELSE RespNone

\* DfSessionService::try_respond_transaction_statements
try_respond_transaction_statements(status, query_lower) ==
    LET q == trim(query_lower)
    IN  IF q \in BeginWords
        THEN CASE status = "Idle" -> Resp("TransactionStart", "BEGIN")
               [] status = "Transaction" -> Resp("Execution", "BEGIN")
               [] status = "Error" -> RespErr("25P01")
        ELSE IF q \in CommitWords
        THEN IF status \in {"Idle", "Transaction"}
             THEN Resp("TransactionEnd", "COMMIT")
             ELSE Resp("TransactionEnd", "ROLLBACK")
        ELSE IF q \in RollbackWords
        THEN Resp("TransactionEnd", "ROLLBACK")
        ELSE RespNone

\* DfSessionService::extract_table_from_query
extract_table_from_query(query) ==
    LET table(words) ==
            LET hits == {i \in 1..Len(words) :
                            /\ to_lowercase(words[i]) \in {Kw.from, Kw.into, Kw.table}
                            /\ i + 1 <= Len(words)}
            IN  IF hits = {} THEN ResAll
                ELSE ResTable(trim_matches(words[SetMin(hits) + 1], {"(", ")", ";"}))
    IN  table(split_whitespace(query))

\* DfSessionService::check_query_permission: TRUE for Ok(()), FALSE for the 42501 error
check_query_permission(auth, username, query) ==
    LET user == IF username = "" THEN "anonymous" ELSE username
        required(q, table) ==
            IF starts_with(q, Kw.select) THEN <<"Select", table>>
            ELSE IF starts_with(q, Kw.insert) THEN <<"Insert", table>>
            ELSE IF starts_with(q, Kw.update) THEN <<"Update", table>>
            ELSE IF starts_with(q, Kw.delete) THEN <<"Delete", table>>
            ELSE IF starts_with(q, Kw.create_table) \/ starts_with(q, Kw.create_view)
            THEN <<"Create", ResAll>>
            ELSE IF starts_with(q, Kw.drop) THEN <<"Drop", table>>
            ELSE IF starts_with(q, Kw.alter) THEN <<"Alter", table>>
            ELSE <<>>
        check(permission) ==
            permission = <<>> \/ check_permission(auth, user, permission[1], permission[2])
    IN  check(required(trim(to_lowercase(query)), extract_table_from_query(query)))

\* The engine's answer to a statement it ran: rows, an INSERT tag, or its error
engine_response(query_lower, engine, insert_tag) ==
    IF engine = "error" THEN RespErr("XX000")
    ELSE IF insert_tag /\ starts_with(query_lower, Kw.insert_into)
    THEN Resp("Execution", "INSERT")
    ELSE RespQuery(<<>>)

\* <DfSessionService as SimpleQueryHandler>::do_query
simple_do_query(auth, client, tz, query, engine) ==
    LET same(r, w) == Outcome(r, tz, client.statement_timeout, w)
        run(rewritten, query_lower) ==
            LET skip == \E w \in {Kw.set, Kw.begin, Kw.commit, Kw.rollback, Kw.start,
                                  Kw.end, Kw.abort, Kw.show} : starts_with(query_lower, w)
            IN  IF ~skip /\ ~check_query_permission(auth, client.user, rewritten)
                THEN same(RespErr("42501"), "none")
                ELSE IF client.transaction_status = "Error"
                THEN same(RespErr("25P01"), "none")
                ELSE same(engine_response(query_lower, engine, TRUE),
                          IF engine = "ok" THEN "executed" ELSE "planned")
        rewrite(rewritten) == run(rewritten, trim(to_lowercase(rewritten)))
        respond(txresp, statement, structured) ==
            IF txresp.kind # "None" THEN same(txresp, "none")
            ELSE IF ~statement.ok THEN same(RespErr("XX000"), "none")
            ELSE IF statement.kind = "Empty" THEN same(Resp("Panic", ""), "none")
            ELSE IF structured.resp.kind # "None" THEN structured
            ELSE rewrite(statement_to_string(statement))
        parsed(statement) ==
            respond(try_respond_transaction_statements(client.transaction_status,
                                                       trim(to_lowercase(query))),
                    statement, try_handle_structured_statement(client, tz, statement))
    IN  parsed(parse(query))

ShortcutWords == {<<>>} \cup BeginWords \cup CommitWords \cup RollbackWords

\* Parser::try_shortcut_parse_plan: the dummy plan's kind, or "none"
try_shortcut_parse_plan(sql) ==
    LET plan(statement) ==
            IF trim(to_lowercase(sql)) \in ShortcutWords THEN "dummy_empty"
            ELSE IF statement.ok /\ statement.kind \in {"SetVariable", "ShowVariable"}
            THEN "dummy_show"
            ELSE "none"
    IN  plan(parse(sql))

\* <Parser as QueryParser>::parse_sql: the stored (String, LogicalPlan), or the error
parse_sql(sql, engine) ==
    LET st(q, p) == [sql |-> q, plan |-> p]
        plan(shortcut, statement) ==
            IF shortcut # "none"
            THEN [resp |-> Resp("ParseComplete", ""), stmt |-> st(sql, shortcut),
                  work |-> "none"]
            ELSE IF ~statement.ok
            THEN [resp |-> RespErr("XX000"), stmt |-> st(<<>>, "none"), work |-> "none"]
            ELSE IF statement.kind = "Empty"
            THEN [resp |-> Resp("Panic", ""), stmt |-> st(<<>>, "none"), work |-> "none"]
            ELSE IF engine = "error"
            THEN [resp |-> RespErr("XX000"), stmt |-> st(<<>>, "none"), work |-> "planned"]
            ELSE [resp |-> Resp("ParseComplete", ""),
                  stmt |-> st(statement_to_string(statement), "plan"), work |-> "planned"]
    IN  plan(try_shortcut_parse_plan(sql), parse(sql))

\* <DfSessionService as ExtendedQueryHandler>::do_describe_statement
do_describe_statement(target) == Resp("ParameterDescription", "")

\* <DfSessionService as ExtendedQueryHandler>::do_query
extended_do_query(auth, client, tz, original_sql, engine) ==
    LET same(r, w) == Outcome(r, tz, client.statement_timeout, w)
        respond(statement, structured, query_lower, txresp) ==
            LET skip == \E w \in {Kw.set, Kw.show, Kw.begin, Kw.commit, Kw.rollback} :
                            starts_with(query_lower, w)
            IN  IF statement.ok /\ statement.kind # "Empty" /\ structured.resp.kind # "None"
                THEN structured
                ELSE IF txresp.kind # "None" THEN same(txresp, "none")
                ELSE IF ~skip /\ ~check_query_permission(auth, client.user, original_sql)
                THEN same(RespErr("42501"), "none")
                ELSE IF client.transaction_status = "Error"
                THEN same(RespErr("25P01"), "none")
                ELSE same(engine_response(query_lower, engine, FALSE),
                          IF engine = "ok" THEN "executed" ELSE "planned")
        lowered(statement, query_lower) ==
            respond(statement, try_handle_structured_statement(client, tz, statement),
                    query_lower,
                    try_respond_transaction_statements(client.transaction_status,
                                                       query_lower))
    IN  lowered(parse(original_sql), trim(to_lowercase(original_sql)))

\* pgwire's TransactionStatus transitions
to_in_transaction_state(status) == IF status = "Error" THEN "Error" ELSE "Transaction"
to_idle_state(status) == "Idle"
to_error_state(status) == IF status = "Idle" THEN "Idle" ELSE "Error"

\* pgwire: the status ReadyForQuery reports after a response has been sent
status_after(status, resp) ==
    CASE resp.kind = "TransactionStart" -> to_in_transaction_state(status)
      [] resp.kind = "TransactionEnd" -> to_idle_state(status)
      [] resp.kind = "Error" -> to_error_state(status)
      [] OTHER -> status

(***************************************************************************)
(* Session actions: one per protocol message                               *)
(***************************************************************************)
\* The statements the client prepares with Parse
ExtQueries == {Sql.begin, Sql.select, Sql.insert, Sql.show_timeout, Sql.bad}

\* What the two clients of the shared-service specification send
SharedQueries == {Sql.begin, Sql.rollback, Sql.set_timeout, Sql.show_timeout,
                  Sql.set_tz, Sql.show_tz}

\* DfSessionService::new: timezone starts as "UTC"
InitialTimezone == <<"U", "T", "C">>

\* The values the handlers can be called with: every transaction status, and
\* the time zones and timeouts the modelled SET statements store
Statuses == {"Idle", "Transaction", "Error"}
SetOutcomes ==
    {simple_do_query(DefaultAuth,
                     [transaction_status |-> "Idle", user |-> "postgres",
                      statement_timeout |-> <<>>],
                     InitialTimezone, q, "ok") : q \in Queries}
Timezones == {InitialTimezone} \cup {o.timezone : o \in SetOutcomes}
Timeouts == {<<>>} \cup {o.meta_timeout : o \in SetOutcomes}
Clients == [transaction_status : Statuses, user : StartupUsers, statement_timeout : Timeouts]

\* The handlers' results on those values, tabulated once (@@ makes each an
\* explicit function instead of a rule re-evaluated at every application)
SimpleResults ==
    [c \in Clients, tz \in Timezones, q \in Queries, e \in EngineOutcomes |->
        simple_do_query(DefaultAuth, c, tz, q, e)] @@ <<>>
ParseResults == [q \in ExtQueries, e \in EngineOutcomes |-> parse_sql(q, e)] @@ <<>>
StoredQueries == {ParseResults[q, e].stmt.sql : q \in ExtQueries, e \in EngineOutcomes}
ExtendedResults ==
    [c \in Clients, tz \in Timezones, q \in StoredQueries, e \in EngineOutcomes |->
        extended_do_query(DefaultAuth, c, tz, q, e)] @@ <<>>

\* The ClientInfo of a session and the auth manager's current maps
Client(s) ==
    [transaction_status |-> txn[s], user |-> meta_user[s],
     statement_timeout |-> meta_timeout[s]]
Auth == [users |-> users, roles |-> roles]

\* The handlers applied to the current state
Tabulated(auth, args, results) == auth = DefaultAuth /\ args \in DOMAIN results
on_query(s, query, engine) ==
    LET at(results) ==
            IF Tabulated(Auth, <<Client(s), timezone, query, engine>>, results)
            THEN results[Client(s), timezone, query, engine]
            ELSE simple_do_query(Auth, Client(s), timezone, query, engine)
    IN  at(SimpleResults)
on_parse(sql, engine) ==
    LET at(results) ==
            IF Tabulated(DefaultAuth, <<sql, engine>>, results)
            THEN results[sql, engine]
            ELSE parse_sql(sql, engine)
    IN  at(ParseResults)
on_execute(s, sql, engine) ==
    LET at(results) ==
            IF Tabulated(Auth, <<Client(s), timezone, sql, engine>>, results)
            THEN results[Client(s), timezone, sql, engine]
            ELSE extended_do_query(Auth, Client(s), timezone, sql, engine)
    IN  at(ExtendedResults)

NoStmt == [sql |-> <<>>, plan |-> "none"]
NoMessage == [s |-> "none", flow |-> "none", sql |-> <<>>, pre |-> "Idle",
              resp |-> RespNone, work |-> "none"]
Message(s, f, q, r, w) ==
    [s |-> s, flow |-> f, sql |-> q, pre |-> txn[s], resp |-> r, work |-> w]

\* NoopStartupHandler::post_startup behind SimpleStartupHandler: the startup
\* parameters go to the metadata, then AuthenticationOk and ReadyForQuery
Startup(s, user) ==
    /\ phase[s] = "new"
    /\ phase' = [phase EXCEPT ![s] = "ready"]
    /\ meta_user' = [meta_user EXCEPT ![s] = user]
    /\ last' = Message(s, "startup", <<>>, Resp("AuthenticationOk", ""), "none")
    /\ UNCHANGED <<meta_timeout, txn, stmt, timezone, authVars, catVars, libVars>>

\* The connection closes: its ClientInfo and prepared statements are dropped
Disconnect(s) ==
    /\ phase[s] = "ready"
    /\ phase' = [phase EXCEPT ![s] = "new"]
    /\ meta_user' = [meta_user EXCEPT ![s] = ""]
    /\ meta_timeout' = [meta_timeout EXCEPT ![s] = <<>>]
    /\ txn' = [txn EXCEPT ![s] = "Idle"]
    /\ stmt' = [stmt EXCEPT ![s] = NoStmt]
    /\ last' = NoMessage
    /\ UNCHANGED <<timezone, authVars, catVars, libVars>>

\* A Query message: SimpleQueryHandler::do_query, then the status update and
\* ReadyForQuery
SimpleQuery(s, query, engine) ==
    /\ phase[s] = "ready"
    /\ \E out \in {on_query(s, query, engine)} :
           /\ timezone' = out.timezone
           /\ meta_timeout' = [meta_timeout EXCEPT ![s] = out.meta_timeout]
           /\ txn' = [txn EXCEPT ![s] = status_after(txn[s], out.resp)]
           /\ last' = Message(s, "simple", query, out.resp, out.work)
    /\ UNCHANGED <<phase, meta_user, stmt, authVars, catVars, libVars>>

\* A Parse message: QueryParser::parse_sql, the statement stored on success
ExtParse(s, sql, engine) ==
    /\ phase[s] = "ready"
    /\ \E out \in {on_parse(sql, engine)} :
           /\ stmt' = [stmt EXCEPT ![s] = IF out.resp.kind = "Error" THEN @ ELSE out.stmt]
           /\ txn' = [txn EXCEPT ![s] = status_after(txn[s], out.resp)]
           /\ last' = Message(s, "parse", sql, out.resp, out.work)
    /\ UNCHANGED <<phase, meta_user, meta_timeout, timezone, authVars, catVars, libVars>>

\* A Describe message for the stored statement
ExtDescribe(s) ==
    /\ phase[s] = "ready"
    /\ stmt[s] # NoStmt
    /\ last' = Message(s, "describe", stmt[s].sql, do_describe_statement(stmt[s]), "none")
    /\ UNCHANGED <<phase, meta_user, meta_timeout, txn, stmt, timezone, authVars, catVars, libVars>>

\* Bind and Execute for the stored statement: ExtendedQueryHandler::do_query
ExtExecute(s, engine) ==
    /\ phase[s] = "ready"
    /\ stmt[s] # NoStmt
    /\ \E out \in {on_execute(s, stmt[s].sql, engine)} :
           /\ timezone' = out.timezone
           /\ meta_timeout' = [meta_timeout EXCEPT ![s] = out.meta_timeout]
           /\ txn' = [txn EXCEPT ![s] = status_after(txn[s], out.resp)]
           /\ last' = Message(s, "execute", stmt[s].sql, out.resp, out.work)
    /\ UNCHANGED <<phase, meta_user, stmt, authVars, catVars, libVars>>

InitSession ==
    /\ phase = [s \in Sessions |-> "new"]
    /\ meta_user = [s \in Sessions |-> ""]
    /\ meta_timeout = [s \in Sessions |-> <<>>]
    /\ txn = [s \in Sessions |-> "Idle"]
    /\ stmt = [s \in Sessions |-> NoStmt]
    /\ timezone = InitialTimezone
    /\ last = NoMessage

(***************************************************************************)
(* The auth manager: role inheritance and a check_permission call, one     *)
(* step per loop iteration or recursive call                               *)
(***************************************************************************)
\* The roles whose inheritance the administrator edits, and the checks made
AuthRoles == {"readonly", "readwrite"}
CheckUsers == {"postgres", "alice", "ghost"}
CheckPermissions == {"Select", "Drop"}

\* Frames a check may hold before the recursion counts as unbounded: more than
\* any acyclic chain over the roles needs
MaxStack == 4

Idle == [pc |-> "idle", stack |-> <<>>, result |-> FALSE,
         permission |-> "Select", resource |-> ResAll]

\* AuthManager::add_role_inheritance
AddRoleInheritance(child_role, parent_role) ==
    /\ child_role \in DOMAIN roles
    /\ roles' = [roles EXCEPT ![child_role].inherited_roles =
                    IF \E i \in DOMAIN @ : @[i] = parent_role
                    THEN @ ELSE Append(@, parent_role)]
    /\ UNCHANGED <<users, chk, boot, sessVars, catVars, libVars>>

\* check_permission up to its loop over user.roles: get_user clones the user
\* under one read lock of the user map
check_start(us, username, permission, resource) ==
    IF username \notin DOMAIN us
    THEN [Idle EXCEPT !.pc = "done", !.permission = permission,
                      !.resource = resource]
    ELSE IF us[username].is_superuser
    THEN [Idle EXCEPT !.pc = "done", !.result = TRUE,
                      !.permission = permission, !.resource = resource]
    ELSE [pc |-> "running",
          stack |-> <<[list |-> us[username].roles, i |-> 1]>>,
          result |-> FALSE, permission |-> permission, resource |-> resource]

\* A check_permission call begins
CheckStart(username, permission, resource) ==
    /\ chk.pc \in {"idle", "done"}
    /\ chk' = check_start(users, username, permission, resource)
    /\ UNCHANGED <<users, roles, boot, sessVars, catVars, libVars>>

\* One iteration of a "for role in ..." loop: get_role, the superuser test, the
\* direct grants, then the recursive check_role_permission call on the role's
\* inherited roles
CheckCall ==
    /\ chk.pc = "running"
    /\ LET n == Len(chk.stack)
           top == chk.stack[n]
           role_name == top.list[top.i]
           advanced == [chk.stack EXCEPT ![n].i = top.i + 1]
       IN  /\ top.i <= Len(top.list)
           /\ chk' =
                IF role_name \notin DOMAIN roles
                THEN [chk EXCEPT !.stack = advanced]
                ELSE IF roles[role_name].is_superuser
                        \/ grants_allow(roles[role_name], chk.permission, chk.resource)
                THEN [chk EXCEPT !.pc = "done", !.stack = <<>>, !.result = TRUE]
                ELSE IF n >= MaxStack
                THEN [chk EXCEPT !.pc = "overflow"]
                ELSE [chk EXCEPT !.stack =
                        Append(advanced, [list |-> roles[role_name].inherited_roles,
                                          i |-> 1])]
    /\ UNCHANGED <<users, roles, boot, sessVars, catVars, libVars>>

\* A loop ran out: check_role_permission returns false to its caller, and
\* check_permission returns false
CheckReturn ==
    /\ chk.pc = "running"
    /\ LET n == Len(chk.stack)
           top == chk.stack[n]
       IN  /\ top.i > Len(top.list)
           /\ chk' = IF n = 1
                     THEN [chk EXCEPT !.pc = "done", !.stack = <<>>, !.result = FALSE]
                     ELSE [chk EXCEPT !.stack = SubSeq(chk.stack, 1, n - 1)]
    /\ UNCHANGED <<users, roles, boot, sessVars, catVars, libVars>>

(***************************************************************************)
(* Construction of the auth manager: the maps start empty, a spawned task  *)
(* fills them one locked operation at a time, wait_for_initialization      *)
(* polls the user map                                                      *)
(***************************************************************************)
\* AuthManager::add_role on a role map (create_role builds the role it adds)
add_role(rs, name, role) ==
    [r \in DOMAIN rs \cup {name} |-> IF r = name THEN role ELSE rs[r]]
create_role(rs, name) ==
    add_role(rs, name, [is_superuser |-> FALSE, grants |-> <<>>, inherited_roles |-> <<>>])

\* AuthManager::grant_permission on a role map: a missing role is an error
grant_permission(rs, name, permission, resource) ==
    IF name \in DOMAIN rs
    THEN [rs EXCEPT ![name].grants = Append(@, Grant(permission, resource))]
    ELSE rs

\* The spawned task of new_with_config, then create_predefined_roles: each step
\* takes one write lock
BootSteps == <<
    [op |-> "add_user", name |-> "postgres", permission |-> ""],
    [op |-> "add_role", name |-> "postgres", permission |-> ""],
    [op |-> "create_role", name |-> "readonly", permission |-> ""],
    [op |-> "grant", name |-> "readonly", permission |-> "Select"],
    [op |-> "create_role", name |-> "readwrite", permission |-> ""],
    [op |-> "grant", name |-> "readwrite", permission |-> "Select"],
    [op |-> "grant", name |-> "readwrite", permission |-> "Insert"],
    [op |-> "grant", name |-> "readwrite", permission |-> "Update"],
    [op |-> "grant", name |-> "readwrite", permission |-> "Delete"],
    [op |-> "create_role", name |-> "dbadmin", permission |-> ""],
    [op |-> "grant", name |-> "dbadmin", permission |-> "All"] >>

\* wait_for_initialization: max_wait polls of 10 ms each
max_wait == 100

\* boot after the task has run to its end and a wait has returned
Booted == [pc |-> Len(BootSteps) + 1, polls |-> 0, waited |-> "returned"]

\* One step of the spawned task
BootTask ==
    /\ boot.pc <= Len(BootSteps)
    /\ LET step == BootSteps[boot.pc]
       IN  /\ users' = IF step.op = "add_user"
                       THEN [u \in DOMAIN users \cup {step.name} |->
                                IF u = step.name THEN DefaultUsers[step.name] ELSE users[u]]
                       ELSE users
           /\ roles' = CASE step.op = "add_role" ->
                                add_role(roles, step.name, DefaultRoles[step.name])
                         [] step.op = "create_role" -> create_role(roles, step.name)
                         [] step.op = "grant" ->
                                grant_permission(roles, step.name, step.permission, ResAll)
                         [] OTHER -> roles
    /\ boot' = [boot EXCEPT !.pc = @ + 1]
    /\ UNCHANGED <<chk, sessVars, catVars, libVars>>

\* One iteration of wait_for_initialization's loop, or its end after max_wait
WaitPoll ==
    /\ boot.waited = "polling"
    /\ boot' = IF boot.polls < max_wait /\ "postgres" \notin DOMAIN users
               THEN [boot EXCEPT !.polls = @ + 1]
               ELSE [boot EXCEPT !.waited = "returned"]
    /\ UNCHANGED <<users, roles, chk, sessVars, catVars, libVars>>

\* new_with_config has returned and the caller awaits wait_for_initialization
InitBoot ==
    /\ users = <<>>
    /\ roles = <<>>
    /\ chk = Idle
    /\ boot = [pc |-> 1, polls |-> 0, waited |-> "polling"]

\* The auth manager once its construction has finished and alice was added
InitAuth ==
    /\ users = DefaultUsers
    /\ roles = DefaultRoles
    /\ chk = Idle
    /\ boot = Booted

(***************************************************************************)
(* pg_catalog: the OID counter and cache, and the scans that use them      *)
(***************************************************************************)
\* OidCacheKey
KeyCatalog(c) == [kind |-> "Catalog", catalog |-> c, schema |-> "", table |-> ""]
KeySchema(c, s) == [kind |-> "Schema", catalog |-> c, schema |-> s, table |-> ""]
KeyTable(c, s, t) == [kind |-> "Table", catalog |-> c, schema |-> s, table |-> t]

\* The engine's objects in this model: the default catalog, one schema that
\* can be dropped and created again, and its tables; and the "postgres"
\* database pg_database adds when no catalog has that name
TableNames == {"t1", "t2"}
TheCatalog == KeyCatalog("datafusion")
TheSchema == KeySchema("datafusion", "public")
Tables == {KeyTable("datafusion", "public", t) : t \in TableNames}
DefaultDatabase == KeyCatalog("postgres")
Keys == {TheCatalog, TheSchema, DefaultDatabase} \cup Tables

Scanners == {"p1", "p2"}
CachedScans == {"pg_class", "pg_namespace", "pg_database"}

\* AtomicU32::new(16384)
FirstOid == 16384
\* OIDs the model lets the counter hand out
MaxOids == 5
\* pg_attribute's local counter
AttributeFirstOid == 10000

NoOids == [k \in Keys |-> 0]
IdleScan == [pc |-> "idle", kind |-> "pg_class", local |-> NoOids]

\* A lock that excludes nobody
write_lock_shared(holder) == TRUE

\* RwLock::write: granted when no task holds the lock
write_lock_free(holder) == holder = "none"

\* A counter that is read and not advanced
fetch_add_stuck(counter) == counter

\* AtomicU32::fetch_add(1): the counter after the call (the call returns the value before)
fetch_add(counter) == counter + 1

\* All orders in which a loop may visit the members of a set
Orders(S) == {seq \in [1..Cardinality(S) -> S] : \A i, j \in DOMAIN seq : i # j => seq[i] # seq[j]}

\* "if let Some(oid) = oid_cache.get(&cache_key) { *oid } else { fetch_add }" over
\* the keys in visiting order: the map built and the counter afterwards
RECURSIVE lookup_or_assign(_, _, _, _)
lookup_or_assign(keys, cache, local, counter) ==
    IF keys = <<>> THEN [local |-> local, counter |-> counter]
    ELSE LET k == Head(keys)
         IN  IF cache[k] # 0
             THEN lookup_or_assign(Tail(keys), cache, [local EXCEPT ![k] = cache[k]], counter)
             ELSE lookup_or_assign(Tail(keys), cache, [local EXCEPT ![k] = counter],
                                   fetch_add(counter))

\* The keys each scan visits, in the order of its loops, and the keys whose OID
\* its rows report
visited(kind, tables) ==
    CASE kind = "pg_class" ->
            <<TheCatalog>> \o (IF TheSchema \in live THEN <<TheSchema>> \o tables ELSE <<>>)
      [] kind = "pg_namespace" -> IF TheSchema \in live THEN <<TheSchema>> ELSE <<>>
      [] kind = "pg_database" -> <<TheCatalog, DefaultDatabase>>
reported(kind) ==
    CASE kind = "pg_class" -> live \cap Tables
      [] kind = "pg_namespace" -> live \cap {TheSchema}
      [] kind = "pg_database" -> {TheCatalog, DefaultDatabase}

\* oid_cache.retain(...) of pg_namespace and pg_database
retain(kind, cache, local) ==
    [k \in Keys |->
        IF kind = "pg_namespace"
        THEN CASE k.kind = "Catalog" -> cache[k]
               [] k.kind = "Schema" -> 0
               [] k.kind = "Table" ->
                    IF local[KeySchema(k.catalog, k.schema)] # 0 THEN cache[k] ELSE 0
        ELSE CASE k.kind = "Catalog" -> 0
               [] OTHER -> IF local[KeyCatalog(k.catalog)] # 0 THEN cache[k] ELSE 0]

\* oid_cache.extend(local)
extend(cache, local) == [k \in Keys |-> IF local[k] # 0 THEN local[k] ELSE cache[k]]


\* get_data of pg_class, pg_namespace or pg_database up to oid_cache.write().await
ScanBegin(p, kind) ==
    /\ scan[p].pc = "idle"
    /\ write_lock_free(lock)
    /\ lock' = p
    /\ scan' = [scan EXCEPT ![p] = [pc |-> "locked", kind |-> kind, local |-> NoOids]]
    /\ UNCHANGED <<live, oid_counter, oid_cache, seen, attseen, assigned, sessVars, authVars, libVars>>

\* The scan's loops over the catalog list: OIDs looked up or drawn from the
\* counter, the rows built
ScanBody(p, tables) ==
    /\ scan[p].pc = "locked"
    /\ LET kind == scan[p].kind
           keys == visited(kind, tables)
           r == lookup_or_assign(keys, oid_cache, NoOids, oid_counter)
           fresh == SelectSeq(keys, LAMBDA k : oid_cache[k] = 0)
       IN  /\ oid_counter + Len(fresh) <= FirstOid + MaxOids
           /\ oid_counter' = r.counter
           /\ scan' = [scan EXCEPT ![p].pc = "built", ![p].local = r.local]
           /\ assigned' = assigned \o [i \in 1..Len(fresh) |-> r.local[fresh[i]]]
           /\ seen' = [k \in Keys |-> IF k \in reported(kind) THEN r.local[k] ELSE seen[k]]
    /\ UNCHANGED <<live, oid_cache, lock, attseen, sessVars, authVars, libVars>>

\* pg_namespace and pg_database: oid_cache.retain(...)
ScanRetain(p) ==
    /\ scan[p].pc = "built"
    /\ scan[p].kind # "pg_class"
    /\ oid_cache' = retain(scan[p].kind, oid_cache, scan[p].local)
    /\ scan' = [scan EXCEPT ![p].pc = "retained"]
    /\ UNCHANGED <<live, oid_counter, lock, seen, attseen, assigned, sessVars, authVars, libVars>>

\* The cache update that ends the scan, "*oid_cache = swap_cache" in pg_class and
\* oid_cache.extend(...) in the others, and the write guard dropped on return
ScanFinish(p) ==
    /\ \/ scan[p].pc = "built" /\ scan[p].kind = "pg_class"
          /\ oid_cache' = scan[p].local
       \/ scan[p].pc = "retained"
          /\ oid_cache' = extend(oid_cache, scan[p].local)
    /\ lock' = "none"
    /\ scan' = [scan EXCEPT ![p] = IdleScan]
    /\ UNCHANGED <<live, oid_counter, seen, attseen, assigned, sessVars, authVars, libVars>>

\* PgAttributeTable::get_data: a local counter from 10000, one per table in
\* iteration order
AttributeScan(tables) ==
    /\ attseen' = [k \in Keys |->
                    IF \E i \in DOMAIN tables : tables[i] = k
                    THEN AttributeFirstOid + (CHOOSE i \in DOMAIN tables : tables[i] = k) - 1
                    ELSE attseen[k]]
    /\ UNCHANGED <<live, oid_counter, oid_cache, lock, scan, seen, assigned,
                   sessVars, authVars, libVars>>

\* CREATE SCHEMA / DROP SCHEMA / CREATE TABLE / DROP TABLE run by the engine
RegisterSchema ==
    /\ TheSchema \notin live
    /\ live' = live \cup {TheSchema}
    /\ UNCHANGED <<oid_counter, oid_cache, lock, scan, seen, attseen, assigned,
                   sessVars, authVars, libVars>>

Deregister(k) ==
    /\ k \in live
    /\ k = TheSchema => live \cap Tables = {}
    /\ live' = live \ {k}
    /\ seen' = [seen EXCEPT ![k] = 0]
    /\ attseen' = [attseen EXCEPT ![k] = 0]
    /\ UNCHANGED <<oid_counter, oid_cache, lock, scan, assigned, sessVars, authVars, libVars>>

RegisterTable(k) ==
    /\ TheSchema \in live
    /\ k \notin live
    /\ live' = live \cup {k}
    /\ UNCHANGED <<oid_counter, oid_cache, lock, scan, seen, attseen, assigned,
                   sessVars, authVars, libVars>>

InitCatalog ==
    /\ live = {TheCatalog, TheSchema}
    /\ oid_counter = FirstOid
    /\ oid_cache = NoOids
    /\ lock = "none"
    /\ scan = [p \in Scanners |-> IdleScan]
    /\ seen = NoOids
    /\ attseen = NoOids
    /\ assigned = <<>>

(***************************************************************************)
(* Specifications                                                          *)
(***************************************************************************)
(***************************************************************************)
(* Library calls made directly, with their arguments drawn from small sets *)
(***************************************************************************)
NoProbe == [fn |-> "none"]

\* tokio::time::timeout(duration, future): Err(Elapsed), here the 57014 error the
\* handlers map it to, when the future needs longer than the duration
tokio_timeout(timeout_duration, elapsed_ms, output) ==
    IF elapsed_ms > timeout_duration THEN RespErr("57014") ELSE output

\* The engine part of SimpleQueryHandler::do_query for a statement the engine
\* accepts: session_context.sql under the deadline, then collect or
\* encode_dataframe. work gives the time each engine call needs.
simple_engine_work(statement_timeout, query_lower, work) ==
    LET answer(to, df) ==
            IF to >= 0 THEN tokio_timeout(to, work.plan_ms, df) ELSE df
    IN  answer(get_statement_timeout(statement_timeout),
               engine_response(query_lower, "ok", TRUE))

\* The engine part of ExtendedQueryHandler::do_query: optimize, then
\* execute_logical_plan under the deadline, then encode_dataframe
extended_engine_work(statement_timeout, query_lower, work) ==
    LET answer(to, dataframe) ==
            IF to >= 0 THEN tokio_timeout(to, work.plan_ms, dataframe) ELSE dataframe
    IN  answer(get_statement_timeout(statement_timeout),
               engine_response(query_lower, "ok", FALSE))

\* Times in ms the engine calls of one statement may need, and the statements run
WorkTimes == {1000, 4000, 6000}
Works == [optimize_ms : WorkTimes, plan_ms : WorkTimes, run_ms : WorkTimes]
TimedQueries == {trim(to_lowercase(Sql.select)), trim(to_lowercase(Sql.insert))}

\* One statement reaches the engine in the Simple or the Extended flow
EngineWork ==
    \E flow \in {"simple", "extended"}, to \in Timeouts, q \in TimedQueries, work \in Works :
        /\ probe' = [fn |-> "engine_work", flow |-> flow, statement_timeout |-> to,
                     work |-> work,
                     total_ms |-> IF flow = "simple" THEN work.plan_ms + work.run_ms
                                  ELSE work.optimize_ms + work.plan_ms + work.run_ms,
                     resp |-> IF flow = "simple"
                              THEN simple_engine_work(to, q, work)
                              ELSE extended_engine_work(to, q, work)]
        /\ UNCHANGED <<sessVars, authVars, catVars>>

\* str::strip_suffix(p).unwrap_or(s)
strip_suffix(s, p) == IF ends_with(s, p) THEN SubSeq(s, 1, Len(s) - Len(p)) ELSE s

\* DfSessionService::try_respond_set_statements, the string-based SET handler
try_respond_set_statements(client, tz, query_lower) ==
    LET same(r, w) == Outcome(r, tz, client.statement_timeout, w)
        set(parts) ==
            IF starts_with(query_lower, join(<<Kw.set, Kw.time, Kw.zone>>, <<" ">>))
            THEN IF Len(parts) >= 4
                 THEN Outcome(Resp("Execution", "SET"), trim_matches(parts[4], {"\""}),
                              client.statement_timeout, "none")
                 ELSE same(RespErr("42601"), "none")
            ELSE IF starts_with(query_lower, join(<<Kw.set, Kw.statement_timeout>>, <<" ">>))
            THEN IF Len(parts) >= 3
                 THEN Outcome(Resp("Execution", "SET"), tz,
                              set_statement_timeout(timeout_of(parts[3])), "none")
                 ELSE same(RespErr("42601"), "none")
            ELSE same(Resp("Execution", "SET"), "planned")
    IN  IF starts_with(query_lower, Kw.set)
        THEN set(split_whitespace(query_lower))
        ELSE same(RespNone, "none")

\* DfSessionService::try_respond_show_statements, the string-based SHOW handler
try_respond_show_statements(client, tz, query_lower) ==
    LET show(q) ==
            IF q = join(<<Kw.show, Kw.time, Kw.zone>>, <<" ">>) THEN RespQuery(tz)
            ELSE IF q = join(<<Kw.show, Kw.statement_timeout>>, <<" ">>)
            THEN LET timeout == get_statement_timeout(client.statement_timeout)
                 IN  RespQuery(IF timeout >= 0 THEN to_string(timeout) \o Kw.ms ELSE <<"0">>)
            ELSE RespQuery(<<>>)
    IN  IF starts_with(query_lower, Kw.show \o <<" ">>)
        THEN show(strip_suffix(query_lower, <<";">>))
        ELSE RespNone

\* SetShowHook::handle_simple_query on a parsed statement: the statement is
\* printed, lowercased and given to the hook's own string handlers, which read
\* as the two above; tz is the time zone the hook keeps with the client
handle_simple_query(client, tz, statement) ==
    LET printed(query_lower) ==
            IF statement.kind = "SetVariable"
            THEN try_respond_set_statements(client, tz, query_lower)
            ELSE IF statement.kind = "ShowVariable"
            THEN Outcome(try_respond_show_statements(client, tz, query_lower),
                         tz, client.statement_timeout, "none")
            ELSE Outcome(RespNone, tz, client.statement_timeout, "none")
    IN  printed(to_lowercase(statement_to_string(statement)))

\* The three ways a SET or SHOW reaches a handler
EntryPoints == {"structured", "string", "hook"}
via(entry, client, sql) ==
    LET parsed(statement) ==
            IF entry = "structured"
            THEN try_handle_structured_statement(client, InitialTimezone, statement)
            ELSE handle_simple_query(client, InitialTimezone, statement)
    IN  IF entry = "string"
        THEN LET set == try_respond_set_statements(client, InitialTimezone,
                                                   trim(to_lowercase(sql)))
             IN  IF set.resp.kind # "None" THEN set
                 ELSE Outcome(try_respond_show_statements(client, InitialTimezone,
                                                          trim(to_lowercase(sql))),
                              InitialTimezone, client.statement_timeout, "none")
        ELSE parsed(parse(sql))

\* SET statement_timeout statements: with '=' and without, valid values, 0,
\* values that are no duration, and no value
SetInputs == {
    [sql |-> <<"S", "E", "T", " ", "s", "t", "a", "t", "e", "m", "e", "n", "t", "_", "t", "i", "m", "e", "o", "u", "t", " ", "=", " ", "'", "5", "0", "0", "0", "m", "s", "'">>,
     class |-> "valid", ms |-> 5000],
    [sql |-> <<"S", "E", "T", " ", "s", "t", "a", "t", "e", "m", "e", "n", "t", "_", "t", "i", "m", "e", "o", "u", "t", " ", "=", " ", "'", "2", "s", "'">>,
     class |-> "valid", ms |-> 2000],
    [sql |-> <<"S", "E", "T", " ", "s", "t", "a", "t", "e", "m", "e", "n", "t", "_", "t", "i", "m", "e", "o", "u", "t", " ", "=", " ", "'", "1", "m", "i", "n", "'">>,
     class |-> "valid", ms |-> 60000],
    [sql |-> <<"S", "E", "T", " ", "s", "t", "a", "t", "e", "m", "e", "n", "t", "_", "t", "i", "m", "e", "o", "u", "t", " ", "=", " ", "7">>,
     class |-> "valid", ms |-> 7],
    [sql |-> <<"S", "E", "T", " ", "s", "t", "a", "t", "e", "m", "e", "n", "t", "_", "t", "i", "m", "e", "o", "u", "t", " ", "=", " ", "0">>,
     class |-> "zero", ms |-> 0],
    [sql |-> <<"S", "E", "T", " ", "s", "t", "a", "t", "e", "m", "e", "n", "t", "_", "t", "i", "m", "e", "o", "u", "t", " ", "=", " ", "'", "a", "b", "c", "'">>,
     class |-> "invalid", ms |-> 0],
    [sql |-> <<"S", "E", "T", " ", "s", "t", "a", "t", "e", "m", "e", "n", "t", "_", "t", "i", "m", "e", "o", "u", "t", " ", "=", " ", "'", "5", "h", "'">>,
     class |-> "invalid", ms |-> 0],
    [sql |-> <<"s", "e", "t", " ", "s", "t", "a", "t", "e", "m", "e", "n", "t", "_", "t", "i", "m", "e", "o", "u", "t", " ", "'", "5", "0", "0", "0", "m", "s", "'">>,
     class |-> "valid", ms |-> 5000],
    [sql |-> <<"s", "e", "t", " ", "s", "t", "a", "t", "e", "m", "e", "n", "t", "_", "t", "i", "m", "e", "o", "u", "t", " ", "0">>,
     class |-> "zero", ms |-> 0],
    [sql |-> <<"s", "e", "t", " ", "s", "t", "a", "t", "e", "m", "e", "n", "t", "_", "t", "i", "m", "e", "o", "u", "t", " ", "'", "a", "b", "c", "'">>,
     class |-> "invalid", ms |-> 0],
    [sql |-> <<"S", "E", "T", " ", "s", "t", "a", "t", "e", "m", "e", "n", "t", "_", "t", "i", "m", "e", "o", "u", "t">>,
     class |-> "missing", ms |-> 0]}

\* A SET statement_timeout through one entry point on a session whose stored
\* timeout is before, then SHOW statement_timeout through the same entry point
SetTimeout ==
    \E entry \in EntryPoints, before \in Timeouts, input \in SetInputs :
        /\ entry # "string" => parse(input.sql).ok
        /\ \E out \in {via(entry, [transaction_status |-> "Idle", user |-> "postgres",
                                    statement_timeout |-> before], input.sql)} :
              probe' = [fn |-> "set_timeout", entry |-> entry, input |-> input,
                        before |-> before, resp |-> out.resp, after |-> out.meta_timeout,
                        show |-> via(entry, [transaction_status |-> "Idle",
                                             user |-> "postgres",
                                             statement_timeout |-> out.meta_timeout],
                                     Sql.show_timeout).resp]
        /\ UNCHANGED <<sessVars, authVars, catVars>>

(***************************************************************************)
(* check_permission as its call chain runs it, on varied user and role maps *)
(***************************************************************************)
\* check_role_permission, and the body of the loop over user.roles: chain holds
\* the roles whose calls are open. A role met again on its own chain repeats
\* the same calls without end: the call never returns
RECURSIVE check_role_permission_call(_, _, _, _, _)
RECURSIVE for_role_in(_, _, _, _, _)
check_role_permission_call(auth, chain, role_name, permission, resource) ==
    IF role_name \notin DOMAIN auth.roles THEN "false"
    ELSE IF role_name \in chain THEN "overflow"
    ELSE IF auth.roles[role_name].is_superuser THEN "true"
    ELSE IF grants_allow(auth.roles[role_name], permission, resource) THEN "true"
    ELSE for_role_in(auth, chain \cup {role_name},
                     auth.roles[role_name].inherited_roles, permission, resource)

\* "for role in list": the first call that returns true ends the loop
for_role_in(auth, chain, list, permission, resource) ==
    IF list = <<>> THEN "false"
    ELSE LET first(returned) ==
                 IF returned = "false"
                 THEN for_role_in(auth, chain, Tail(list), permission, resource)
                 ELSE returned
         IN  first(check_role_permission_call(auth, chain, Head(list),
                                              permission, resource))

\* AuthManager::check_permission with the outcome of its recursion
check_permission_call(auth, username, permission, resource) ==
    IF username \notin DOMAIN auth.users THEN "false"
    ELSE IF auth.users[username].is_superuser THEN "true"
    ELSE for_role_in(auth, {}, auth.users[username].roles, permission, resource)

\* Role maps built with add_role, grant_permission and add_role_inheritance,
\* and a user added with add_user; role "c" is named but never created
RoleA ==
    [is_superuser : {FALSE},
     grants : {<<>>, <<Grant("Insert", ResAll)>>},
     inherited_roles : {<<>>, <<"b">>, <<"a", "b">>, <<"c", "b">>}]
RoleB ==
    [is_superuser : BOOLEAN,
     grants : {<<>>, <<Grant("Select", ResAll)>>,
               <<Grant("All", ResSchema(<<"s">>))>>,
               <<Grant("Insert", ResTable(<<"s", ".", "u">>)),
                 Grant("Select", ResTable(<<"s", ".", "t">>))>>},
     inherited_roles : {<<>>, <<"a">>}]
Bob ==
    [password_hash : {<<>>}, roles : {<<>>, <<"a">>, <<"c", "a">>, <<"b">>},
     is_superuser : BOOLEAN, can_login : {TRUE}]
AuthMaps ==
    {[users |-> [u \in {"bob"} |-> bob],
      roles |-> [r \in {"a", "b"} |-> IF r = "a" THEN a ELSE b]] :
        bob \in Bob, a \in RoleA, b \in RoleB}
AskedUsers == {"bob", "ghost"}
AskedPermissions == {"Select", "Insert"}
AskedResources ==
    {ResAll, ResSchema(<<"s">>), ResTable(<<"s", ".", "t">>),
     ResTable(<<"s", "x", ".", "t">>)}

\* An auth manager in one of the states of AuthMaps
InitPerm ==
    /\ \E auth \in AuthMaps : users = auth.users /\ roles = auth.roles
    /\ chk = Idle
    /\ boot = Booted

\* One check_permission call
CheckPermission ==
    \E username \in AskedUsers, permission \in AskedPermissions,
       resource \in AskedResources :
        /\ probe' = [fn |-> "check_permission", username |-> username,
                     permission |-> permission, resource |-> resource,
                     returned |-> check_permission_call(
                                      [users |-> users, roles |-> roles],
                                      username, permission, resource)]
        /\ UNCHANGED <<sessVars, authVars, catVars>>

(***************************************************************************)
(* The permission check of a statement on a table, in the session service  *)
(* and in PermissionsHook                                                  *)
(***************************************************************************)
\* PermissionsHook::check_query_permission: TRUE for Ok(()), FALSE for the 42501 error
permissions_check_query_permission(auth, username, query) ==
    LET user == IF username = "" THEN "anonymous" ELSE username
        required(q) ==
            IF starts_with(q, Kw.select) THEN <<"Select", ResAll>>
            ELSE IF starts_with(q, Kw.insert) THEN <<"Insert", ResAll>>
            ELSE IF starts_with(q, Kw.update) THEN <<"Update", ResAll>>
            ELSE IF starts_with(q, Kw.delete) THEN <<"Delete", ResAll>>
            ELSE IF starts_with(q, Kw.create_table) \/ starts_with(q, Kw.create_view)
            THEN <<"Create", ResAll>>
            ELSE IF starts_with(q, Kw.drop) THEN <<"Drop", ResAll>>
            ELSE IF starts_with(q, Kw.alter) THEN <<"Alter", ResAll>>
            ELSE <<>>
        check(permission) ==
            permission = <<>> \/ check_permission(auth, user, permission[1], permission[2])
    IN  check(required(trim(to_lowercase(query))))

\* PermissionsHook::handle_simple_query: Some(Err(42501)) or None
permissions_handle_simple_query(auth, client, statement) ==
    LET answer(query_lower) ==
            LET skip == \E w \in {Kw.set, Kw.begin, Kw.commit, Kw.rollback, Kw.start,
                                  Kw.end, Kw.abort, Kw.show} : starts_with(query_lower, w)
            IN  IF ~skip /\ ~permissions_check_query_permission(auth, client.user,
                                                                query_lower)
                THEN RespErr("42501")
                ELSE RespNone
    IN  answer(to_lowercase(statement_to_string(statement)))

\* An auth manager with user carol, no superuser, whose one role holds one
\* grant: permission on the table named
TableAuth(permission, table_name) ==
    [users |-> [u \in {"carol"} |->
                    [password_hash |-> <<>>, roles |-> <<"tr">>,
                     is_superuser |-> FALSE, can_login |-> TRUE]],
     roles |-> [r \in {"tr"} |->
                    [is_superuser |-> FALSE,
                     grants |-> <<Grant(permission, ResTable(table_name))>>,
                     inherited_roles |-> <<>>]]]

\* Statements on table t1 and the permission each needs
TableStatements ==
    {[sql |-> <<"S", "E", "L", "E", "C", "T", " ", "*", " ", "F", "R", "O", "M", " ", "t", "1">>,
      permission |-> "Select"],
     [sql |-> <<"I", "N", "S", "E", "R", "T", " ", "I", "N", "T", "O", " ", "t", "1", " ", "V", "A", "L", "U", "E", "S", " ", "(", "1", ")">>,
      permission |-> "Insert"],
     [sql |-> <<"U", "P", "D", "A", "T", "E", " ", "t", "1", " ", "S", "E", "T", " ", "a", " ", "=", " ", "1">>,
      permission |-> "Update"],
     [sql |-> <<"D", "E", "L", "E", "T", "E", " ", "F", "R", "O", "M", " ", "t", "1">>,
      permission |-> "Delete"],
     [sql |-> <<"D", "R", "O", "P", " ", "T", "A", "B", "L", "E", " ", "t", "1">>,
      permission |-> "Drop"],
     [sql |-> <<"A", "L", "T", "E", "R", " ", "T", "A", "B", "L", "E", " ", "t", "1", " ", "A", "D", "D", " ", "C", "O", "L", "U", "M", "N", " ", "b", " ", "I", "N", "T">>,
      permission |-> "Alter"]}
CheckPaths == {"simple", "extended", "hook"}
GrantedTables == {<<"t", "1">>, <<"t", "2">>}

\* carol sends a statement on t1 through one path of the server
StatementCheck ==
    \E path \in CheckPaths, st \in TableStatements, granted \in TableStatements,
       table_name \in GrantedTables :
        /\ \E resp \in {LET auth == TableAuth(granted.permission, table_name)
                            client == [transaction_status |-> "Idle", user |-> "carol",
                                       statement_timeout |-> <<>>]
                        IN  CASE path = "simple" ->
                                     simple_do_query(auth, client, InitialTimezone,
                                                     st.sql, "ok").resp
                              [] path = "extended" ->
                                     extended_do_query(auth, client, InitialTimezone,
                                                       st.sql, "ok").resp
                              [] path = "hook" ->
                                     permissions_handle_simple_query(auth, client,
                                                                     parse(st.sql))} :
              probe' = [fn |-> "statement_check", path |-> path, statement |-> st,
                        granted |-> granted.permission, table_name |-> table_name,
                        resp |-> resp]
        /\ UNCHANGED <<sessVars, authVars, catVars>>

(***************************************************************************)
(* authenticate on managers of every configuration                         *)
(***************************************************************************)
AuthConfigs == [require_passwords : BOOLEAN, allow_empty_passwords : BOOLEAN]
\* The user dave as add_user may have stored them
LoginUsers ==
    [password_hash : {<<>>, <<"p", "w">>, <<"x">>}, roles : {<<>>},
     is_superuser : {FALSE}, can_login : BOOLEAN]
LoginNames == {"dave", "ghost"}
OfferedPasswords == {<<>>, <<"p", "w">>, <<"P", "W">>}

\* One authenticate call
Authenticate ==
    \E cfg \in AuthConfigs, user \in LoginUsers, username \in LoginNames,
       password \in OfferedPasswords :
        /\ probe' = [fn |-> "authenticate", config |-> cfg, user |-> user,
                     username |-> username, password |-> password,
                     returned |-> authenticate_on(cfg, [u \in {"dave"} |-> user],
                                                  username, password)]
        /\ UNCHANGED <<sessVars, authVars, catVars>>

(***************************************************************************)
(* PostgresCompatibilityParser: the blacklist on token streams, then the   *)
(* AST rules. A token is its text; " " is any Token::Whitespace            *)
(***************************************************************************)
\* PostgresCompatibilityParser::new: BLACKLIST_SQL_MAPPING tokenized, whitespace
\* and semicolons filtered out
blacklist == <<
    [pattern |->
        <<"SELECT", "s_p", ".", "nspname", "AS", "parentschema", ",", "t_p", ".",
          "relname", "AS", "parenttable", ",", "unnest", "(", "(", "select", "array_agg",
          "(", "attname", "ORDER", "BY", "i", ")", "from", "(", "select", "unnest", "(",
          "confkey", ")", "as", "attnum", ",", "generate_subscripts", "(", "confkey",
          ",", "1", ")", "as", "i", ")", "x", "JOIN", "pg_catalog", ".", "pg_attribute",
          "c", "USING", "(", "attnum", ")", "WHERE", "c", ".", "attrelid", "=", "fk",
          ".", "confrelid", ")", ")", "AS", "parentcolumn", ",", "s_c", ".", "nspname",
          "AS", "childschema", ",", "t_c", ".", "relname", "AS", "childtable", ",",
          "unnest", "(", "(", "select", "array_agg", "(", "attname", "ORDER", "BY", "i",
          ")", "from", "(", "select", "unnest", "(", "conkey", ")", "as", "attnum", ",",
          "generate_subscripts", "(", "conkey", ",", "1", ")", "as", "i", ")", "x",
          "JOIN", "pg_catalog", ".", "pg_attribute", "c", "USING", "(", "attnum", ")",
          "WHERE", "c", ".", "attrelid", "=", "fk", ".", "conrelid", ")", ")", "AS",
          "childcolumn", "FROM", "pg_catalog", ".", "pg_constraint", "fk", "JOIN",
          "pg_catalog", ".", "pg_class", "t_p", "ON", "t_p", ".", "oid", "=", "fk", ".",
          "confrelid", "JOIN", "pg_catalog", ".", "pg_namespace", "s_p", "ON", "s_p",
          ".", "oid", "=", "t_p", ".", "relnamespace", "JOIN", "pg_catalog", ".",
          "pg_class", "t_c", "ON", "t_c", ".", "oid", "=", "fk", ".", "conrelid", "JOIN",
          "pg_catalog", ".", "pg_namespace", "s_c", "ON", "s_c", ".", "oid", "=", "t_c",
          ".", "relnamespace", "WHERE", "fk", ".", "contype", "=", "'f'">>,
     replacement |->
        <<"SELECT", "NULL", "::", "TEXT", "AS", "parentschema", ",", "NULL", "::",
          "TEXT", "AS", "parenttable", ",", "NULL", "::", "TEXT", "AS", "parentcolumn",
          ",", "NULL", "::", "TEXT", "AS", "childschema", ",", "NULL", "::", "TEXT",
          "AS", "childtable", ",", "NULL", "::", "TEXT", "AS", "childcolumn", "WHERE",
          "false">>],
    [pattern |->
        <<"SELECT", "n", ".", "nspname", "schema_name", ",", "t", ".", "typname",
          "type_name", "FROM", "pg_catalog", ".", "pg_type", "t", "INNER", "JOIN",
          "pg_catalog", ".", "pg_namespace", "n", "ON", "n", ".", "oid", "=", "t", ".",
          "typnamespace", "WHERE", "(", "t", ".", "typrelid", "=", "0", "OR", "(",
          "SELECT", "c", ".", "relkind", "=", "'c'", "FROM", "pg_catalog", ".",
          "pg_class", "c", "WHERE", "c", ".", "oid", "=", "t", ".", "typrelid", ")", ")",
          "AND", "NOT", "EXISTS", "(", "SELECT", "1", "FROM", "pg_catalog", ".",
          "pg_type", "el", "WHERE", "el", ".", "oid", "=", "t", ".", "typelem", "AND",
          "el", ".", "typarray", "=", "t", ".", "oid", ")", "AND", "n", ".", "nspname",
          "<>", "'pg_catalog'", "AND", "n", ".", "nspname", "<>", "'information_schema'",
          "ORDER", "BY", "1", ",", "2">>,
     replacement |->
        <<"SELECT", "NULL", "::", "TEXT", "AS", "schema_name", ",", "NULL", "::", "TEXT",
          "AS", "type_name", "WHERE", "false">>],
    [pattern |->
        <<"SELECT", "pol", ".", "polname", ",", "pol", ".", "polpermissive", ",", "CASE",
          "WHEN", "pol", ".", "polroles", "=", "'{0}'", "THEN", "NULL", "ELSE",
          "pg_catalog", ".", "array_to_string", "(", "array", "(", "select", "rolname",
          "from", "pg_catalog", ".", "pg_roles", "where", "oid", "=", "any", "(", "pol",
          ".", "polroles", ")", "order", "by", "1", ")", ",", "','", ")", "END", ",",
          "pg_catalog", ".", "pg_get_expr", "(", "pol", ".", "polqual", ",", "pol", ".",
          "polrelid", ")", ",", "pg_catalog", ".", "pg_get_expr", "(", "pol", ".",
          "polwithcheck", ",", "pol", ".", "polrelid", ")", ",", "CASE", "pol", ".",
          "polcmd", "WHEN", "'r'", "THEN", "'SELECT'", "WHEN", "'a'", "THEN", "'INSERT'",
          "WHEN", "'w'", "THEN", "'UPDATE'", "WHEN", "'d'", "THEN", "'DELETE'", "END",
          "AS", "cmd", "FROM", "pg_catalog", ".", "pg_policy", "pol", "WHERE", "pol",
          ".", "polrelid", "=", "$1", "ORDER", "BY", "1">>,
     replacement |->
        <<"SELECT", "NULL", "::", "TEXT", "AS", "polname", ",", "NULL", "::", "TEXT",
          "AS", "polpermissive", ",", "NULL", "::", "TEXT", "AS", "array_to_string", ",",
          "NULL", "::", "TEXT", "AS", "pg_get_expr_1", ",", "NULL", "::", "TEXT", "AS",
          "pg_get_expr_2", ",", "NULL", "::", "TEXT", "AS", "cmd", "WHERE", "false">>],
    [pattern |->
        <<"SELECT", "oid", ",", "stxrelid", "::", "pg_catalog", ".", "regclass", ",",
          "stxnamespace", "::", "pg_catalog", ".", "regnamespace", "::", "pg_catalog",
          ".", "text", "AS", "nsp", ",", "stxname", ",", "pg_catalog", ".",
          "pg_get_statisticsobjdef_columns", "(", "oid", ")", "AS", "columns", ",",
          "'d'", "=", "any", "(", "stxkind", ")", "AS", "ndist_enabled", ",", "'f'", "=",
          "any", "(", "stxkind", ")", "AS", "deps_enabled", ",", "'m'", "=", "any", "(",
          "stxkind", ")", "AS", "mcv_enabled", ",", "stxstattarget", "FROM",
          "pg_catalog", ".", "pg_statistic_ext", "WHERE", "stxrelid", "=", "$1", "ORDER",
          "BY", "nsp", ",", "stxname">>,
     replacement |->
        <<"SELECT", "NULL", "::", "INT", "AS", "oid", ",", "NULL", "::", "TEXT", "AS",
          "stxrelid", ",", "NULL", "::", "TEXT", "AS", "nsp", ",", "NULL", "::", "TEXT",
          "AS", "stxname", ",", "NULL", "::", "TEXT", "AS", "columns", ",", "NULL", "::",
          "BOOLEAN", "AS", "ndist_enabled", ",", "NULL", "::", "BOOLEAN", "AS",
          "deps_enabled", ",", "NULL", "::", "BOOLEAN", "AS", "mcv_enabled", ",", "NULL",
          "::", "TEXT", "AS", "stxstattarget", "WHERE", "false">>],
    [pattern |->
        <<"SELECT", "pubname", ",", "NULL", ",", "NULL", "FROM", "pg_catalog", ".",
          "pg_publication", "p", "JOIN", "pg_catalog", ".", "pg_publication_namespace",
          "pn", "ON", "p", ".", "oid", "=", "pn", ".", "pnpubid", "JOIN", "pg_catalog",
          ".", "pg_class", "pc", "ON", "pc", ".", "relnamespace", "=", "pn", ".",
          "pnnspid", "WHERE", "pc", ".", "oid", "=", "$1", "and", "pg_catalog", ".",
          "pg_relation_is_publishable", "(", "$1", ")", "UNION", "SELECT", "pubname",
          ",", "pg_get_expr", "(", "pr", ".", "prqual", ",", "c", ".", "oid", ")", ",",
          "(", "CASE", "WHEN", "pr", ".", "prattrs", "IS", "NOT", "NULL", "THEN", "(",
          "SELECT", "string_agg", "(", "attname", ",", "', '", ")", "FROM", "pg_catalog",
          ".", "generate_series", "(", "0", ",", "pg_catalog", ".", "array_upper", "(",
          "pr", ".", "prattrs", "::", "pg_catalog", ".", "int2", "[", "]", ",", "1", ")",
          ")", "s", ",", "pg_catalog", ".", "pg_attribute", "WHERE", "attrelid", "=",
          "pr", ".", "prrelid", "AND", "attnum", "=", "prattrs", "[", "s", "]", ")",
          "ELSE", "NULL", "END", ")", "FROM", "pg_catalog", ".", "pg_publication", "p",
          "JOIN", "pg_catalog", ".", "pg_publication_rel", "pr", "ON", "p", ".", "oid",
          "=", "pr", ".", "prpubid", "JOIN", "pg_catalog", ".", "pg_class", "c", "ON",
          "c", ".", "oid", "=", "pr", ".", "prrelid", "WHERE", "pr", ".", "prrelid", "=",
          "$1", "UNION", "SELECT", "pubname", ",", "NULL", ",", "NULL", "FROM",
          "pg_catalog", ".", "pg_publication", "p", "WHERE", "p", ".", "puballtables",
          "AND", "pg_catalog", ".", "pg_relation_is_publishable", "(", "$1", ")",
          "ORDER", "BY", "1">>,
     replacement |->
        <<"SELECT", "NULL", "::", "TEXT", "AS", "pubname", ",", "NULL", "::", "TEXT",
          "AS", "_1", ",", "NULL", "::", "TEXT", "AS", "_2", "WHERE", "false">>],
    [pattern |->
        <<"SELECT", "CASE", "WHEN", "trim", "(", "s", "[", "i", "]", ")", "=",
          "'\"$user\"'", "THEN", "user", "ELSE", "trim", "(", "s", "[", "i", "]", ")",
          "END", "FROM", "generate_series", "(", "array_lower", "(", "string_to_array",
          "(", "current_setting", "(", "'search_path'", ")", ",", "','", ")", ",", "1",
          ")", ",", "array_upper", "(", "string_to_array", "(", "current_setting", "(",
          "'search_path'", ")", ",", "','", ")", ",", "1", ")", ")", "as", "i", ",",
          "string_to_array", "(", "current_setting", "(", "'search_path'", ")", ",",
          "','", ")", "s">>,
     replacement |->
        <<"'public'">>]>>

\* matches!(t, Token::Whitespace(_) | Token::SemiColon)
is_whitespace_or_semicolon(t) == t \in {" ", ";"}

\* Token::Placeholder(_)
is_placeholder(t) == t \in {"$1", "$2"}

\* The filter of maybe_replace_tokens and of PostgresCompatibilityParser::new
filter_tokens(tokens) == SelectSeq(tokens, LAMBDA t : ~is_whitespace_or_semicolon(t))

\* The pattern test of maybe_replace_tokens with no wildcard for placeholders
matches_pattern_exactly(filtered_tokens, pattern, start) ==
    \A i \in 1..Len(pattern) : filtered_tokens[start + i - 1] = pattern[i]

\* "Check if pattern matches starting at position 'start'"
matches_pattern(filtered_tokens, pattern, start) ==
    \A i \in 1..Len(pattern) :
        is_placeholder(pattern[i]) \/ filtered_tokens[start + i - 1] = pattern[i]

\* "Search for pattern in filtered tokens": the while loop moves start to the
\* next position where the pattern matches, marks it, and goes on behind the
\* match. marks is to_replace (the set of marked indexes) and replacements
\* (<<>> for None)
RECURSIVE search_pattern(_, _, _, _)
search_pattern(filtered_tokens, entry, start, marks) ==
    LET next(found) ==
            IF found = {} THEN marks
            ELSE search_pattern(filtered_tokens, entry,
                     SetMin(found) + Len(entry.pattern),
                     [to_replace |-> marks.to_replace
                            \cup (SetMin(found)..(SetMin(found) + Len(entry.pattern) - 1)),
                      replacements |-> [marks.replacements EXCEPT ![SetMin(found)] =
                                           <<[replacement |-> entry.replacement,
                                              pattern_len |-> Len(entry.pattern)]>>]])
    IN  next({s \in start..(Len(filtered_tokens) - Len(entry.pattern) + 1) :
                 matches_pattern(filtered_tokens, entry.pattern, s)})

\* "Find all matches of blacklist patterns in the filtered tokens"
RECURSIVE find_matches(_, _, _)
find_matches(filtered_tokens, k, marks) ==
    IF k > Len(blacklist) THEN marks
    ELSE find_matches(filtered_tokens, k + 1,
             IF blacklist[k].pattern = <<>> THEN marks
             ELSE search_pattern(filtered_tokens, blacklist[k], 1, marks))

\* "Find the corresponding index in filtered_tokens", as the table of the
\* index in tokens of every filtered token
filtered_positions(tokens) ==
    SelectSeq([i \in DOMAIN tokens |-> i],
              LAMBDA i : ~is_whitespace_or_semicolon(tokens[i]))

\* "Find how many original tokens correspond to this pattern", counting every
\* token as one of the pattern
pattern_len_unfiltered(positions, len, filtered_idx, pattern_len) == pattern_len

\* "Find how many original tokens correspond to this pattern": the tokens from
\* the one at filtered_idx up to the pattern_len-th that is no whitespace or
\* semicolon, or up to the end of the len tokens
pattern_len_in_original(positions, len, filtered_idx, pattern_len) ==
    IF filtered_idx + pattern_len - 1 <= Len(positions)
    THEN positions[filtered_idx + pattern_len - 1] - positions[filtered_idx] + 1
    ELSE len - positions[filtered_idx] + 1

\* "Build the result by replacing matched ranges": the while loop keeps every
\* token up to the next one that is marked and holds a replacement, pushes the
\* replacement there, and goes on behind the tokens of the pattern
RECURSIVE build_result(_, _, _, _, _)
build_result(tokens, positions, marks, i, result) ==
    LET next(starts) ==
            IF starts = {} THEN result \o SubSeq(tokens, i, Len(tokens))
            ELSE build_result(tokens, positions, marks,
                     positions[SetMin(starts)]
                       + pattern_len_in_original(positions, Len(tokens), SetMin(starts),
                             marks.replacements[SetMin(starts)][1].pattern_len),
                     result \o SubSeq(tokens, i, positions[SetMin(starts)] - 1)
                            \o marks.replacements[SetMin(starts)][1].replacement)
    IN  next({f \in marks.to_replace :
                 positions[f] >= i /\ marks.replacements[f] # <<>>})

\* PostgresCompatibilityParser::maybe_replace_tokens on a tokenized input
maybe_replace_tokens(tokens) ==
    LET replaced(filtered_tokens) ==
            IF filtered_tokens = <<>> THEN tokens
            ELSE build_result(tokens, filtered_positions(tokens),
                     find_matches(filtered_tokens, 1,
                         [to_replace |-> {},
                          replacements |-> [i \in DOMAIN filtered_tokens |-> <<>>]]),
                     1, <<>>)
    IN  replaced(filter_tokens(tokens))

\* The patterns written out as a client sends them: a token for each
\* placeholder, and whitespace or semicolons between the tokens
fill(pattern, fills) ==
    [i \in DOMAIN pattern |->
        IF is_placeholder(pattern[i]) THEN fills[1 + (i % 2)] ELSE pattern[i]]
FillPairs == {<<"$1", "$1">>, <<"16384", "'t'">>, <<"'t'", "-">>}
Layouts == {"spaced", "lines", "semicolons"}
lay_out(ts, layout) ==
    IF layout = "spaced"
    THEN [i \in 1..(2 * Len(ts) - 1) |-> IF i % 2 = 1 THEN ts[(i + 1) \div 2] ELSE " "]
    ELSE [i \in 1..(3 * Len(ts) - 2) |->
            IF i % 3 = 1 THEN ts[(i + 2) \div 3]
            ELSE IF i % 3 = 2 /\ layout = "semicolons" THEN ";" ELSE " "]

\* What stands before and after the pattern's tokens in the input
Befores ==
    {<<>>, <<" ">>, <<"EXPLAIN", " ">>,
     <<"SELECT", " ", "x", " ", "IN", " ", "(", " ">>}
Afters ==
    {<<>>, <<";">>, <<" ", ")", ";">>,
     <<" ", "UNION", " ", "SELECT", " ", "1">>}

\* An input: the tokens of blacklist entry k written out between before and after
ParseInputs ==
    {[fn |-> "input", k |-> k, before |-> before, after |-> after,
      tokens |-> before \o lay_out(fill(blacklist[k].pattern, fills), layout) \o after] :
        k \in DOMAIN blacklist, fills \in FillPairs, layout \in Layouts,
        before \in Befores, after \in Afters}

\* The AST rules of PostgresCompatibilityParser::new, in the order of its vec
parser_rewrite_rules ==
    <<"AliasDuplicatedProjectionRewrite", "ResolveUnqualifiedIdentifer",
      "RewriteArrayAnyAllOperation", "PrependUnqualifiedPgTableName",
      "RemoveQualifier", "RemoveUnsupportedTypes", "FixArrayLiteral",
      "CurrentUserVariableToSessionUserFunctionCall", "FixCollate",
      "RemoveSubqueryFromProjection", "FixVersionColumnName">>

\* The rules of DfSessionService::new, shared by its Parser, in the order of its vec
sql_rewrite_rules ==
    <<"BlacklistSqlRewriter", "AliasDuplicatedProjectionRewrite",
      "ResolveUnqualifiedIdentifer", "RemoveUnsupportedTypes",
      "RewriteArrayAnyAllOperation", "PrependUnqualifiedPgTableName",
      "FixArrayLiteral", "RemoveTableFunctionQualifier",
      "CurrentUserVariableToSessionUserFunctionCall">>

\* rewrite: "for rule in rules { s = rule.rewrite(s) }", a statement carrying the
\* rules applied to it so far
RECURSIVE rewrite(_, _)
rewrite(s, rules) ==
    IF rules = <<>> THEN s
    ELSE rewrite([s EXCEPT !.applied = Append(@, Head(rules))], Tail(rules))

\* maybe_replace_tokens on an input
MaybeReplaceTokens ==
    /\ probe.fn = "input"
    /\ probe' = [fn |-> "maybe_replace_tokens", k |-> probe.k,
                 before |-> probe.before, after |-> probe.after,
                 tokens |-> probe.tokens,
                 output |-> maybe_replace_tokens(probe.tokens)]
    /\ UNCHANGED <<sessVars, authVars, catVars>>

\* PostgresCompatibilityParser::parse after its maybe_replace_tokens call:
\* parse_tokens, then rewrite on the statement
ParserParse ==
    /\ probe.fn = "maybe_replace_tokens"
    /\ probe' = [fn |-> "parse", path |-> "PostgresCompatibilityParser::parse",
                 k |-> probe.k,
                 statement |-> rewrite([tokens |-> filter_tokens(probe.output),
                                        applied |-> <<"maybe_replace_tokens">>],
                                       parser_rewrite_rules)]
    /\ UNCHANGED <<sessVars, authVars, catVars>>

\* The Simple Query handler and the Extended Parse handler on an input: parse,
\* then rewrite with the service's rules
SessionPaths == {"SimpleQueryHandler::do_query", "QueryParser::parse_sql"}
SessionParse(path) ==
    /\ probe.fn = "input"
    /\ probe' = [fn |-> "parse", path |-> path, k |-> probe.k,
                 statement |-> rewrite([tokens |-> filter_tokens(probe.tokens),
                                        applied |-> <<>>],
                                       sql_rewrite_rules)]
    /\ UNCHANGED <<sessVars, authVars, catVars>>

(***************************************************************************)
(* quote_ident and parse_ident                                             *)
(***************************************************************************)
\* char::to_uppercase on the ASCII letters
UpperOf ==
    [c \in {LowerChars[k] : k \in DOMAIN LowerChars} |->
        UpperChars[CHOOSE k \in DOMAIN LowerChars : LowerChars[k] = c]]

\* str::to_uppercase
to_uppercase(s) ==
    [i \in 1..Len(s) |-> IF s[i] \in DOMAIN UpperOf THEN UpperOf[s[i]] ELSE s[i]]

\* char::is_alphabetic and char::is_alphanumeric on ASCII
is_alphabetic(c) == c \in DOMAIN UpperOf \/ c \in DOMAIN LowerOf
is_alphanumeric(c) == is_alphabetic(c) \/ \E d \in DOMAIN Digits : Digits[d] = c

\* The array of is_reserved_word
reserved_words == {
    <<"A", "L", "L">>, <<"A", "N", "A", "L", "Y", "S", "E">>,
    <<"A", "N", "A", "L", "Y", "Z", "E">>, <<"A", "N", "D">>, <<"A", "N", "Y">>,
    <<"A", "R", "R", "A", "Y">>, <<"A", "S">>, <<"A", "S", "C">>,
    <<"A", "S", "Y", "M", "M", "E", "T", "R", "I", "C">>,
    <<"A", "U", "T", "H", "O", "R", "I", "Z", "A", "T", "I", "O", "N">>,
    <<"B", "E", "T", "W", "E", "E", "N">>, <<"B", "I", "N", "A", "R", "Y">>,
    <<"B", "O", "T", "H">>, <<"C", "A", "S", "E">>, <<"C", "A", "S", "T">>,
    <<"C", "H", "E", "C", "K">>, <<"C", "O", "L", "L", "A", "T", "E">>,
    <<"C", "O", "L", "U", "M", "N">>,
    <<"C", "O", "N", "C", "U", "R", "R", "E", "N", "T", "L", "Y">>,
    <<"C", "O", "N", "S", "T", "R", "A", "I", "N", "T">>, <<"C", "R", "E", "A", "T", "E">>,
    <<"C", "R", "O", "S", "S">>,
    <<"C", "U", "R", "R", "E", "N", "T", "_", "C", "A", "T", "A", "L", "O", "G">>,
    <<"C", "U", "R", "R", "E", "N", "T", "_", "D", "A", "T", "E">>,
    <<"C", "U", "R", "R", "E", "N", "T", "_", "R", "O", "L", "E">>,
    <<"C", "U", "R", "R", "E", "N", "T", "_", "S", "C", "H", "E", "M", "A">>,
    <<"C", "U", "R", "R", "E", "N", "T", "_", "T", "I", "M", "E">>,
    <<"C", "U", "R", "R", "E", "N", "T", "_", "T", "I", "M", "E", "S", "T", "A", "M", "P">>,
    <<"C", "U", "R", "R", "E", "N", "T", "_", "U", "S", "E", "R">>,
    <<"D", "E", "F", "A", "U", "L", "T">>,
    <<"D", "E", "F", "E", "R", "R", "A", "B", "L", "E">>, <<"D", "E", "S", "C">>,
    <<"D", "I", "S", "T", "I", "N", "C", "T">>, <<"D", "O">>, <<"E", "L", "S", "E">>,
    <<"E", "N", "D">>, <<"E", "X", "C", "E", "P", "T">>, <<"F", "A", "L", "S", "E">>,
    <<"F", "E", "T", "C", "H">>, <<"F", "O", "R">>, <<"F", "O", "R", "E", "I", "G", "N">>,
    <<"F", "R", "O", "M">>, <<"F", "U", "L", "L">>, <<"G", "R", "A", "N", "T">>,
    <<"G", "R", "O", "U", "P">>, <<"H", "A", "V", "I", "N", "G">>,
    <<"I", "L", "I", "K", "E">>, <<"I", "N">>,
    <<"I", "N", "I", "T", "I", "A", "L", "L", "Y">>, <<"I", "N", "N", "E", "R">>,
    <<"I", "N", "T", "E", "R", "S", "E", "C", "T">>, <<"I", "N", "T", "O">>, <<"I", "S">>,
    <<"I", "S", "N", "U", "L", "L">>, <<"J", "O", "I", "N">>,
    <<"L", "A", "T", "E", "R", "A", "L">>, <<"L", "E", "A", "D", "I", "N", "G">>,
    <<"L", "E", "F", "T">>, <<"L", "I", "K", "E">>, <<"L", "I", "M", "I", "T">>,
    <<"L", "O", "C", "A", "L", "T", "I", "M", "E">>,
    <<"L", "O", "C", "A", "L", "T", "I", "M", "E", "S", "T", "A", "M", "P">>,
    <<"N", "A", "T", "U", "R", "A", "L">>, <<"N", "O", "T">>,
    <<"N", "O", "T", "N", "U", "L", "L">>, <<"N", "U", "L", "L">>,
    <<"O", "F", "F", "S", "E", "T">>, <<"O", "N">>, <<"O", "N", "L", "Y">>, <<"O", "R">>,
    <<"O", "R", "D", "E", "R">>, <<"O", "U", "T", "E", "R">>,
    <<"O", "V", "E", "R", "L", "A", "P", "S">>, <<"P", "L", "A", "C", "I", "N", "G">>,
    <<"P", "R", "I", "M", "A", "R", "Y">>,
    <<"R", "E", "F", "E", "R", "E", "N", "C", "E", "S">>,
    <<"R", "E", "T", "U", "R", "N", "I", "N", "G">>, <<"R", "I", "G", "H", "T">>,
    <<"S", "E", "L", "E", "C", "T">>,
    <<"S", "E", "S", "S", "I", "O", "N", "_", "U", "S", "E", "R">>,
    <<"S", "I", "M", "I", "L", "A", "R">>, <<"S", "O", "M", "E">>,
    <<"S", "Y", "M", "M", "E", "T", "R", "I", "C">>, <<"T", "A", "B", "L", "E">>,
    <<"T", "A", "B", "L", "E", "S", "A", "M", "P", "L", "E">>, <<"T", "H", "E", "N">>,
    <<"T", "O">>, <<"T", "R", "A", "I", "L", "I", "N", "G">>, <<"T", "R", "U", "E">>,
    <<"U", "N", "I", "O", "N">>, <<"U", "N", "I", "Q", "U", "E">>, <<"U", "S", "E", "R">>,
    <<"U", "S", "I", "N", "G">>, <<"V", "A", "R", "I", "A", "D", "I", "C">>,
    <<"V", "E", "R", "B", "O", "S", "E">>, <<"W", "H", "E", "N">>,
    <<"W", "H", "E", "R", "E">>, <<"W", "I", "N", "D", "O", "W">>, <<"W", "I", "T", "H">>}

\* is_reserved_word
is_reserved_word(word) == to_uppercase(word) \in reserved_words

\* needs_quoting
needs_quoting(ident) ==
    IF ident = <<>> THEN TRUE
    ELSE IF ~is_alphabetic(ident[1]) /\ ident[1] # "_" THEN TRUE
    ELSE IF \E i \in 2..Len(ident) : ~is_alphanumeric(ident[i]) /\ ident[i] # "_"
    THEN TRUE
    ELSE is_reserved_word(ident)

\* str::replace('"', "\"\"")
RECURSIVE escape_quotes(_)
escape_quotes(s) ==
    IF s = <<>> THEN <<>>
    ELSE (IF Head(s) = "\"" THEN <<"\"", "\"">> ELSE <<Head(s)>>) \o escape_quotes(Tail(s))

\* The closure of create_quote_ident_udf on one non-null value
quote_ident(ident) ==
    IF starts_with(ident, <<"\"">>) /\ ends_with(ident, <<"\"">>)
    THEN escape_quotes(ident)
    ELSE IF needs_quoting(ident)
    THEN <<"\"">> \o escape_quotes(ident) \o <<"\"">>
    ELSE ident

ParseOk(parts) == [ok |-> TRUE, parts |-> parts]
ParseErr == [ok |-> FALSE, parts |-> <<>>]

\* The while loop of parse_ident_string from character i on, and what follows it
RECURSIVE parse_ident_chars(_, _, _, _, _, _)
parse_ident_chars(ident, strict, i, parts, current_part, in_quotes) ==
    IF i > Len(ident)
    THEN IF in_quotes THEN ParseErr
         ELSE IF current_part # <<>> THEN ParseOk(Append(parts, current_part))
         ELSE IF ends_with(ident, <<".">>) /\ strict THEN ParseErr
         ELSE IF parts = <<>> THEN ParseErr
         ELSE ParseOk(parts)
    ELSE IF ident[i] = "\"" /\ ~in_quotes
    THEN parse_ident_chars(ident, strict, i + 1, parts, current_part, TRUE)
    ELSE IF ident[i] = "\""
    THEN IF i + 1 <= Len(ident) /\ ident[i + 1] = "\""
         THEN parse_ident_chars(ident, strict, i + 2, parts,
                                Append(current_part, "\""), TRUE)
         ELSE parse_ident_chars(ident, strict, i + 1,
                                IF current_part # <<>> THEN Append(parts, current_part)
                                ELSE parts,
                                <<>>, FALSE)
    ELSE IF ident[i] = "." /\ ~in_quotes
    THEN IF current_part # <<>>
         THEN parse_ident_chars(ident, strict, i + 1, Append(parts, current_part),
                                <<>>, FALSE)
         ELSE IF strict THEN ParseErr
         ELSE parse_ident_chars(ident, strict, i + 1, parts, current_part, FALSE)
    ELSE parse_ident_chars(ident, strict, i + 1, parts,
                           Append(current_part, ident[i]), in_quotes)

\* parse_ident_string
parse_ident_string(ident, strict) ==
    IF ident = <<>> THEN ParseErr
    ELSE parse_ident_chars(ident, strict, 1, <<>>, <<>>, FALSE)

\* ParseIdentUDF::invoke_with_args on one non-null value: the list appended for
\* it, or the Execution error returned
parse_ident(ident, strict) ==
    LET returned(parsed) ==
            IF parsed.ok THEN [error |-> FALSE, list |-> parsed.parts]
            ELSE IF strict THEN [error |-> TRUE, list |-> <<>>]
            ELSE [error |-> FALSE, list |-> <<>>]
    IN  returned(parse_ident_string(ident, strict))

\* Identifiers and texts the functions are called with
MaxIdentLen == 3
IdentChars == {"o", "N", "1", ".", " ", "\""}
Idents == UNION {[1..n -> IdentChars] : n \in 0..MaxIdentLen}
SecondIdents == {<<>>, <<"t">>, <<"o", "N">>, <<"\"", "t", "\"">>}

\* The forms of one part of a well-formed input: its text, quoted or not
PartForms ==
    {[text |-> <<"o">>, quoted |-> FALSE], [text |-> <<"o", "N">>, quoted |-> FALSE],
     [text |-> <<"o">>, quoted |-> TRUE], [text |-> <<"o", ".", "N">>, quoted |-> TRUE],
     [text |-> <<"\"">>, quoted |-> TRUE], [text |-> <<"o", " ">>, quoted |-> TRUE]}
MaxParts == 3
PartLists == UNION {[1..n -> PartForms] : n \in 1..MaxParts}
written(part) ==
    IF part.quoted THEN <<"\"">> \o escape_quotes(part.text) \o <<"\"">> ELSE part.text
RECURSIVE written_parts(_)
written_parts(ps) ==
    IF Len(ps) = 1 THEN written(ps[1])
    ELSE written(ps[1]) \o <<".">> \o written_parts(Tail(ps))

MaxTextLen == 4
TextChars == {"o", ".", "\""}
Texts == UNION {[1..n -> TextChars] : n \in 0..MaxTextLen}

IdentInputs ==
    {[fn |-> "idents", i |-> i, j |-> j] : i \in Idents, j \in SecondIdents}
    \cup {[fn |-> "parts", parts |-> ps, strict |-> strict] :
             ps \in PartLists, strict \in BOOLEAN}
    \cup {[fn |-> "text", text |-> t, strict |-> strict] :
             t \in Texts \ {<<>>}, strict \in BOOLEAN}

\* SELECT parse_ident(quote_ident(i) || '.' || quote_ident(j))
ParseQuoted ==
    /\ probe.fn = "idents"
    /\ probe' = [fn |-> "parse_quoted", i |-> probe.i, j |-> probe.j,
                 returned |-> parse_ident(quote_ident(probe.i) \o <<".">>
                                              \o quote_ident(probe.j), FALSE)]
    /\ UNCHANGED <<sessVars, authVars, catVars>>

\* SELECT parse_ident(text, strict) on a text written from parts
ParseParts ==
    /\ probe.fn = "parts"
    /\ probe' = [fn |-> "parse_parts", parts |-> probe.parts, strict |-> probe.strict,
                 returned |-> parse_ident(written_parts(probe.parts), probe.strict)]
    /\ UNCHANGED <<sessVars, authVars, catVars>>

\* SELECT parse_ident(text, strict)
ParseText ==
    /\ probe.fn = "text"
    /\ probe' = [fn |-> "parse_text", text |-> probe.text, strict |-> probe.strict,
                 returned |-> parse_ident(probe.text, probe.strict)]
    /\ UNCHANGED <<sessVars, authVars, catVars>>

(***************************************************************************)
(* Parameter types of a prepared statement: Describe and Bind              *)
(***************************************************************************)
\* The order of the bytes that occur in placeholder ids
ByteOrder == <<"$", "0", "1", "2", "3", "4", "5", "6", "7", "8", "9">>
byte(c) == CHOOSE k \in DOMAIN ByteOrder : ByteOrder[k] = c

\* String::cmp(a, b) = Less: byte-wise lexicographic order
str_less(a, b) ==
    \E i \in 1..(Len(a) + 1) :
        /\ i <= Len(b)
        /\ \A k \in 1..(i - 1) : a[k] = b[k]
        /\ i = Len(a) + 1 \/ byte(a[i]) < byte(b[i])

\* The id of the k-th placeholder: "$k"
placeholder_id(k) == <<"$">> \o to_string(k)

\* ordered_param_types: the values of the map, sorted by key with String::cmp
ordered_param_types(types) ==
    [i \in 1..Cardinality(DOMAIN types) |->
        types[CHOOSE id \in DOMAIN types :
                  Cardinality({other \in DOMAIN types : str_less(other, id)}) = i - 1]]

\* into_pg_type on Some(datatype), Type::UNKNOWN for None
pg_type(param_type) ==
    CASE param_type = "None" -> "UNKNOWN"
      [] param_type = "Int32" -> "INT4"
      [] param_type = "Int64" -> "INT8"
      [] param_type = "Utf8" -> "TEXT"

\* The parameter types of do_describe_statement's response
describe_param_types(plan) ==
    LET pushed(ordered) == [i \in DOMAIN ordered |-> pg_type(ordered[i])]
    IN  pushed(ordered_param_types(plan.param_types))

\* deserialize_parameters in do_query: the i-th value of the portal is decoded
\* as the i-th type given; replace_params_with_values then gives $i that value
bind_param_types(plan) == ordered_param_types(plan.param_types)

\* extract_placeholder_cast_types over the expressions of the plan in the
\* order plan.apply visits them: placeholder_types ("Absent" for no entry) and
\* casted_placeholders after node i
RECURSIVE extract_placeholder_cast_types(_, _, _, _)
extract_placeholder_cast_types(exprs, i, placeholder_types, casted_placeholders) ==
    IF i > Len(exprs) THEN placeholder_types
    ELSE IF exprs[i].kind = "Cast"
    THEN extract_placeholder_cast_types(exprs, i + 1,
             [placeholder_types EXCEPT ![exprs[i].id] = exprs[i].data_type],
             casted_placeholders \cup {exprs[i].id})
    ELSE IF /\ exprs[i].id \notin casted_placeholders
            /\ placeholder_types[exprs[i].id] = "Absent"
    THEN extract_placeholder_cast_types(exprs, i + 1,
             [placeholder_types EXCEPT ![exprs[i].id] = "None"], casted_placeholders)
    ELSE extract_placeholder_cast_types(exprs, i + 1, placeholder_types,
                                        casted_placeholders)

\* get_inferred_parameter_types
get_inferred_parameter_types(plan) ==
    LET merge(cast_types) ==
            [id \in DOMAIN plan.param_types |->
                IF plan.param_types[id] = "None" /\ cast_types[id] # "Absent"
                THEN cast_types[id] ELSE plan.param_types[id]]
    IN  IF \A id \in DOMAIN plan.param_types : plan.param_types[id] # "None"
        THEN plan.param_types
        ELSE merge(extract_placeholder_cast_types(plan.exprs, 1,
                       [id \in DOMAIN plan.param_types |-> "Absent"], {}))

\* Prepared statements: n placeholders, the types plan.get_parameter_types
\* reports for them, and the Cast and Placeholder expressions of the plan
MaxParams == 11
InferredPatterns ==
    {<<"Int32">>, <<"None">>, <<"Int32", "Utf8">>, <<"Utf8", "None", "Int32">>}
CastPatterns == {<<"no">>, <<"Int64">>, <<"Int64", "no", "Utf8">>}
pattern_at(pattern, k) == pattern[1 + (k % Len(pattern))]
RECURSIVE plan_exprs(_, _, _)
plan_exprs(n, k, casts) ==
    IF k > n THEN <<>>
    ELSE (IF pattern_at(casts, k) = "no"
          THEN <<[kind |-> "Placeholder", id |-> placeholder_id(k), data_type |-> "None"]>>
          ELSE <<[kind |-> "Cast", id |-> placeholder_id(k),
                  data_type |-> pattern_at(casts, k)],
                 [kind |-> "Placeholder", id |-> placeholder_id(k),
                  data_type |-> "None"]>>)
         \o plan_exprs(n, k + 1, casts)
Plans ==
    {[n |-> n,
      param_types |-> [id \in {placeholder_id(k) : k \in 1..n} |->
                          pattern_at(inferred,
                                     CHOOSE k \in 1..n : placeholder_id(k) = id)],
      exprs |-> plan_exprs(n, 1, casts)] :
        n \in 1..MaxParams, inferred \in InferredPatterns, casts \in CastPatterns}

\* Describe(statement) on a prepared statement
DescribeStatement ==
    /\ probe.fn = "prepared"
    /\ probe' = [fn |-> "describe", plan |-> probe.plan,
                 param_types |-> describe_param_types(probe.plan)]
    /\ UNCHANGED <<sessVars, authVars, catVars>>

\* Bind and Execute on a prepared statement
BindParameters ==
    /\ probe.fn \in {"prepared", "describe"}
    /\ probe' = [fn |-> "bind", plan |-> probe.plan,
                 decoded_as |-> bind_param_types(probe.plan)]
    /\ UNCHANGED <<sessVars, authVars, catVars>>

\* get_inferred_parameter_types called on the plan of a prepared statement
InferParameterTypes ==
    /\ probe.fn = "prepared"
    /\ probe' = [fn |-> "inferred", plan |-> probe.plan,
                 types |-> get_inferred_parameter_types(probe.plan)]
    /\ UNCHANGED <<sessVars, authVars, catVars>>

(***************************************************************************)
(* Arrow to PostgreSQL row encoder (arrow-pg)                              *)
(***************************************************************************)
\* The rows of a batch and the calls of next_row on one encoder
MaxRows == 2
MaxCalls == 4

\* An encoded value as an encoder's buffer holds it
EncodedNull == [kind |-> "null", text |-> "", fields |-> <<>>]
EncodedText(v) == [kind |-> "text", text |-> v, fields |-> <<>>]
EncodedComposite(buffer) == [kind |-> "composite", text |-> "", fields |-> buffer]

\* Encoder::encode_field, of DataRowEncoder and of StructEncoder: the value
\* goes to the end of the encoder's buffer
encode_field(encoder, value) == Append(encoder, value)

\* DataRowEncoder::take_row: the row of the values encoded so far
take_row(encoder) == encoder

RECURSIVE encode_value(_, _, _, _)
RECURSIVE encode_struct_columns(_, _, _, _, _)

\* The loop of encode_struct over the columns of the struct array: fields[i]
\* is an index into the composite type's fields, and the result of
\* encode_value is unwrapped
encode_struct_columns(arr, idx, fields, i, row_encoder) ==
    IF i > Len(arr.columns)
    THEN [status |-> "ok", value |-> EncodedComposite(row_encoder)]
    ELSE IF i > Len(fields)
    THEN [status |-> "panic", value |-> EncodedNull]
    ELSE LET unwrapped(r) ==
                 IF r.status # "ok"
                 THEN [status |-> "panic", value |-> EncodedNull]
                 ELSE encode_struct_columns(arr, idx, fields, i + 1, r.encoder)
         IN  unwrapped(encode_value(row_encoder, arr.columns[i], idx, fields[i]))

\* encode_struct: the value of row idx of a struct array
encode_struct(arr, idx, parent_pg_field_info) ==
    IF arr.nulls[idx + 1]
    THEN [status |-> "ok", value |-> EncodedNull]
    ELSE IF parent_pg_field_info.kind # "Composite"
    THEN [status |-> "err", value |-> EncodedNull]
    ELSE encode_struct_columns(arr, idx, parent_pg_field_info.fields, 1, <<>>)

\* encode_value: a struct goes through encode_struct, a scalar through the
\* to_sql conversion of its type, which the value "bad" fails
encode_value(encoder, arr, idx, pg_field) ==
    IF arr.data_type = "Struct"
    THEN LET encoded(v) ==
                 IF v.status # "ok"
                 THEN [status |-> v.status, encoder |-> encoder]
                 ELSE [status |-> "ok", encoder |-> encode_field(encoder, v.value)]
         IN  encoded(encode_struct(arr, idx, pg_field))
    ELSE IF arr.values[idx + 1] = "bad"
    THEN [status |-> "err", encoder |-> encoder]
    ELSE IF arr.values[idx + 1] = "NULL"
    THEN [status |-> "ok", encoder |-> encode_field(encoder, EncodedNull)]
    ELSE [status |-> "ok",
          encoder |-> encode_field(encoder, EncodedText(arr.values[idx + 1]))]

\* RecordBatch::num_rows
num_rows(rb) == rb.rows

\* RowEncoder::new
RowEncoder_new(rb, fields) ==
    [rb |-> rb, fields |-> fields, curr_idx |-> 0, row_encoder |-> <<>>]

\* The loop of next_row over the columns, filling the encoder it was given
RECURSIVE next_row_columns(_, _, _)
next_row_columns(self, col, encoder) ==
    IF col > Len(self.rb.columns)
    THEN [status |-> "ok", encoder |-> encoder]
    ELSE LET step(r) == IF r.status # "ok" THEN r
                        ELSE next_row_columns(self, col + 1, r.encoder)
         IN  step(encode_value(encoder, self.rb.columns[col], self.curr_idx,
                               self.fields[col]))

\* RowEncoder::next_row: what the call yields and the encoder after it. The
\* columns are encoded into a DataRowEncoder made for the call, and the row
\* is taken from the encoder kept in the struct
next_row(self) ==
    IF self.curr_idx = num_rows(self.rb)
    THEN [yield |-> [kind |-> "None", row |-> <<>>, idx |-> self.curr_idx],
          self |-> self]
    ELSE LET done(r) ==
                 IF r.status = "err"
                 THEN [yield |-> [kind |-> "Err", row |-> <<>>, idx |-> self.curr_idx],
                       self |-> self]
                 ELSE IF r.status = "panic"
                 THEN [yield |-> [kind |-> "panic", row |-> <<>>, idx |-> self.curr_idx],
                       self |-> self]
                 ELSE [yield |-> [kind |-> "Ok", row |-> take_row(self.row_encoder),
                                  idx |-> self.curr_idx],
                       self |-> [self EXCEPT !.curr_idx = @ + 1,
                                             !.row_encoder = <<>>]]
         IN  done(next_row_columns(self, 1, <<>>))

\* The columns of the batches: a string column, and a struct column of one
\* or two string columns, with the field info of each
ScalarValues == {"a", "bad"}
ScalarColumns(n) ==
    {[data_type |-> "Utf8", values |-> v, nulls |-> [k \in 1..n |-> FALSE],
      columns |-> <<>>] : v \in [1..n -> ScalarValues]}
NullMasks(n) == {[k \in 1..n |-> FALSE], [k \in 1..n |-> k = 1]}
StructColumns(n) ==
    {[data_type |-> "Struct", values |-> [k \in 1..n |-> "NULL"], nulls |-> m,
      columns |-> c] :
        m \in NullMasks(n),
        c \in UNION {[1..w -> ScalarColumns(n)] : w \in 1..2}}
TextField == [kind |-> "Simple", fields |-> <<>>]
StructFields == {TextField} \cup
                {[kind |-> "Composite", fields |-> [k \in 1..w |-> TextField]] : w \in 1..2}
Batches ==
    UNION {
        {[rb |-> [rows |-> n, columns |-> <<c>>], fields |-> <<TextField>>] :
            c \in ScalarColumns(n)}
        \cup {[rb |-> [rows |-> n, columns |-> <<c>>], fields |-> <<f>>] :
            c \in StructColumns(n), f \in StructFields}
        \cup {[rb |-> [rows |-> n, columns |-> <<s, c>>], fields |-> <<TextField, TextField>>] :
            s \in ScalarColumns(n), c \in ScalarColumns(n)}
        \cup {[rb |-> [rows |-> n, columns |-> <<s, c>>], fields |-> <<TextField, f>>] :
            s \in ScalarColumns(n), c \in StructColumns(n), f \in StructFields}
        : n \in 0..MaxRows}

\* One call of next_row by the task that streams the batch; a panic ends the
\* task
NextRow ==
    /\ probe.fn = "row_encoder"
    /\ ~probe.panicked
    /\ Len(probe.yielded) < MaxCalls
    /\ \E out \in {next_row(probe.self)} :
           probe' = [probe EXCEPT !.self = out.self,
                                  !.yielded = Append(@, out.yield),
                                  !.panicked = out.yield.kind = "panic"]
    /\ UNCHANGED <<sessVars, authVars, catVars>>

(***************************************************************************)
(* List elements (arrow-pg list_encoder)                                   *)
(***************************************************************************)
\* An element of an array, Option<T>
None(zero) == [some |-> FALSE, val |-> zero]
Some(v) == [some |-> TRUE, val |-> v]
\* Option::map
option_map(ov, f(_)) == IF ov.some THEN Some(f(ov.val)) ELSE ov

\* A primitive integer is its type and its bits, most significant limb
\* first: one limb of 8 bits for u8 and i8, limbs of 16 bits beyond
LimbBase == 65536
ByteBase == 256
limb_base(type, k) == IF type \in {"u8", "i8"} /\ k = 1 THEN ByteBase ELSE LimbBase
Signed(type) == type \in {"i8", "i16", "i32", "i64"}

\* `val as T` between integer types of one width: the bits stay, the type
\* changes
as_type(val, type) == [type |-> type, bits |-> val.bits]

\* get_u8_list_value, get_u16_list_value, get_u32_list_value and
\* get_u64_list_value: the vector each hands to encode_field
get_u8_list_value(arr) ==
    [k \in DOMAIN arr |-> LET f(val) == as_type(val, "i8") IN option_map(arr[k], f)]
get_u16_list_value(arr) ==
    [k \in DOMAIN arr |-> LET f(val) == as_type(val, "i16") IN option_map(arr[k], f)]
get_u32_list_value(arr) == arr
get_u64_list_value(arr) ==
    [k \in DOMAIN arr |-> LET f(val) == as_type(val, "i64") IN option_map(arr[k], f)]

\* i256::to_string
i256_to_string(v) == IF v < 0 THEN <<"-">> \o to_string(0 - v) ELSE to_string(v)

\* The text of one Decimal256 element of scale s
decimal256_text(raw_value, s) ==
    LET scale == s
        value_str == i256_to_string(raw_value)
        chars == value_str
    IN  IF scale = 0 THEN value_str
        ELSE IF Len(chars) <= scale
        THEN LET zeros_needed == scale - Len(chars) + 1
                 spliced == [k \in 1..zeros_needed |-> "0"] \o chars
             IN  <<spliced[1], ".">> \o Tail(spliced)
        ELSE LET decimal_pos == Len(chars) - scale
             IN  SubSeq(chars, 1, decimal_pos) \o <<".">>
                 \o SubSeq(chars, decimal_pos + 1, Len(chars))

\* encode_list: the value handed to encode_field for an array of the data
\* type
encode_list(arr, data_type) ==
    CASE data_type.name = "UInt8" -> get_u8_list_value(arr)
      [] data_type.name = "UInt16" -> get_u16_list_value(arr)
      [] data_type.name = "UInt32" -> get_u32_list_value(arr)
      [] data_type.name = "UInt64" -> get_u64_list_value(arr)
      [] data_type.name = "Decimal256" ->
             [k \in DOMAIN arr |->
                 LET f(raw_value) == decimal256_text(raw_value, data_type.scale)
                 IN  option_map(arr[k], f)]

\* The arrays encoded: unsigned integers around the sign bit of each width,
\* and Decimal256 values of few digits for scales 0 to MaxScale
MaxUnscaled == 120
MaxScale == 3
EdgeLimbs == {0, 1, 32767, 32768, 65535}
UnsignedValues ==
    [UInt8 |-> {[type |-> "u8", bits |-> <<b>>] : b \in 0..(ByteBase - 1)},
     UInt16 |-> {[type |-> "u16", bits |-> <<b>>] : b \in EdgeLimbs \cup {255, 256}},
     UInt32 |-> {[type |-> "u32", bits |-> <<h, l>>] : h \in EdgeLimbs, l \in EdgeLimbs},
     UInt64 |-> {[type |-> "u64", bits |-> <<h, a, b, l>>] :
                    h \in EdgeLimbs, a \in {0, 65535}, b \in {0, 65535}, l \in {0, 1, 65535}}]
ArraysOf(values, zero) == {<<Some(v)>> : v \in values} \cup {<<None(zero), Some(v)>> : v \in values}
UnsignedInputs ==
    UNION {{[fn |-> "list", data_type |-> [name |-> t, scale |-> 0], arr |-> a] :
                a \in ArraysOf(UnsignedValues[t], CHOOSE z \in UnsignedValues[t] : TRUE)}
            : t \in DOMAIN UnsignedValues}
DecimalInputs ==
    {[fn |-> "list", data_type |-> [name |-> "Decimal256", scale |-> s], arr |-> a] :
        s \in 0..MaxScale, a \in ArraysOf((0 - MaxUnscaled)..MaxUnscaled, 0)}

\* encode_list on an array of unsigned integers
EncodeUnsignedList ==
    /\ probe.fn = "list"
    /\ probe.data_type.name # "Decimal256"
    /\ probe' = [fn |-> "encoded_unsigned", data_type |-> probe.data_type,
                 arr |-> probe.arr, sent |-> encode_list(probe.arr, probe.data_type)]
    /\ UNCHANGED <<sessVars, authVars, catVars>>

\* encode_list on an array of Decimal256
EncodeDecimalList ==
    /\ probe.fn = "list"
    /\ probe.data_type.name = "Decimal256"
    /\ probe' = [fn |-> "encoded_decimal", data_type |-> probe.data_type,
                 arr |-> probe.arr, sent |-> encode_list(probe.arr, probe.data_type)]
    /\ UNCHANGED <<sessVars, authVars, catVars>>

(***************************************************************************)
(* pg_class: the kind of a relation                                        *)
(***************************************************************************)
\* str::contains
str_contains(s, p) ==
    \E i \in 1..(Len(s) - Len(p) + 1) : SubSeq(s, i, i + Len(p) - 1) = p

\* get_table_type: "v" for a ViewTable provider, "r" for any other
get_table_type(table) == IF table = "ViewTable" THEN "v" ELSE "r"

\* get_table_type_with_name
get_table_type_with_name(table, table_name, schema_name) ==
    IF schema_name = <<"p", "g", "_", "c", "a", "t", "a", "l", "o", "g">> \/ schema_name = <<"i", "n", "f", "o", "r", "m", "a", "t", "i", "o", "n", "_", "s", "c", "h", "e", "m", "a">>
    THEN IF \/ starts_with(table_name, <<"p", "g", "_">>)
            \/ str_contains(table_name, <<"_", "t", "a", "b", "l", "e">>)
            \/ str_contains(table_name, <<"_", "c", "o", "l", "u", "m", "n">>)
         THEN "r"
         ELSE "v"
    ELSE get_table_type(table)

\* The tables pg_class is asked about: a provider registered under a name
\* in a schema
Providers == {"ViewTable", "MemTable", "StreamingTable"}
ClassSchemas == {<<"p", "g", "_", "c", "a", "t", "a", "l", "o", "g">>,
                 <<"i", "n", "f", "o", "r", "m", "a", "t", "i", "o", "n", "_", "s", "c", "h", "e", "m", "a">>,
                 <<"p", "u", "b", "l", "i", "c">>,
                 <<"s", "a", "l", "e", "s">>}
ClassTables == {<<"p", "g", "_", "c", "l", "a", "s", "s">>,
                <<"p", "g", "_", "v", "i", "e", "w", "s">>,
                <<"t", "a", "b", "l", "e", "s">>,
                <<"c", "o", "l", "u", "m", "n", "s">>,
                <<"s", "c", "h", "e", "m", "a", "t", "a">>,
                <<"v", "i", "e", "w", "s">>,
                <<"m", "y", "_", "t", "a", "b", "l", "e">>,
                <<"x", "_", "c", "o", "l", "u", "m", "n", "s">>,
                <<"o", "r", "d", "e", "r", "s">>,
                <<"v">>}
ClassInputs ==
    {[fn |-> "registered", table |-> t, table_name |-> n, schema_name |-> s] :
        t \in Providers, n \in ClassTables, s \in ClassSchemas}

\* The row PgClassTable::get_data pushes for one table of a schema
PgClassRow ==
    /\ probe.fn = "registered"
    /\ probe' = [fn |-> "pg_class_row", table |-> probe.table,
                 schema_name |-> probe.schema_name,
                 relname |-> probe.table_name,
                 relkind |-> get_table_type_with_name(probe.table, probe.table_name,
                                                      probe.schema_name)]
    /\ UNCHANGED <<sessVars, authVars, catVars>>

(***************************************************************************)
(* SET and SHOW of the time zone by the sessions of one service            *)
(***************************************************************************)
\* The SET statements sent, each with the value it names, quotes stripped
ZoneInputs == {
    [sql |-> <<"S", "E", "T", " ", "t", "i", "m", "e", "z", "o", "n", "e", " ", "=", " ", "'", "P", "S", "T", "'">>, x |-> <<"P", "S", "T">>],
    [sql |-> <<"S", "E", "T", " ", "t", "i", "m", "e", "z", "o", "n", "e", " ", "=", " ", "\"", "C", "e", "t", "\"">>, x |-> <<"C", "e", "t">>],
    [sql |-> <<"S", "E", "T", " ", "T", "I", "M", "E", "Z", "O", "N", "E", " ", "=", " ", "u", "t", "c">>, x |-> <<"u", "t", "c">>]}

\* The handler a statement reaches: the service's AST handler, which keeps the
\* time zone in DfSessionService.timezone, or SetShowHook, which keeps it with
\* the client
ZoneEntries == {"structured", "hook"}
zone_handler(entry, tz, sql) ==
    LET client == [transaction_status |-> "Idle", user |-> "postgres",
                   statement_timeout |-> <<>>]
        parsed(statement) ==
            IF entry = "structured"
            THEN try_handle_structured_statement(client, tz, statement)
            ELSE handle_simple_query(client, tz, statement)
    IN  parsed(parse(sql))

\* The time zone a statement of session s finds, and where it is after the
\* statement stored tz
zone_of(z, s) == IF z.entry = "structured" THEN z.timezone ELSE z.client_timezone[s]
zone_stored(z, s, tz) ==
    IF z.entry = "structured" THEN [z EXCEPT !.timezone = tz]
    ELSE [z EXCEPT !.client_timezone[s] = tz]

NoShow == [s |-> "none", value |-> <<>>, x |-> <<>>]

\* A session sets the time zone
SetTimeZone ==
    \E s \in Sessions, input \in ZoneInputs :
        /\ probe.fn = "zone"
        /\ \E out \in {zone_handler(probe.entry, zone_of(probe, s), input.sql)} :
               probe' = [zone_stored(probe, s, out.timezone) EXCEPT
                            !.x[s] = IF out.resp = Resp("Execution", "SET")
                                     THEN input.x ELSE @]
        /\ UNCHANGED <<sessVars, authVars, catVars>>

\* A session asks for the time zone
ShowTimeZone ==
    \E s \in Sessions :
        /\ probe.fn = "zone"
        /\ \E out \in {zone_handler(probe.entry, zone_of(probe, s), Sql.show_tz)} :
               probe' = [probe EXCEPT !.shown = [s |-> s, value |-> out.resp.value,
                                                 x |-> probe.x[s]]]
        /\ UNCHANGED <<sessVars, authVars, catVars>>

(***************************************************************************)
(* Query texts with semicolons: blank texts, transaction verbs followed by *)
(* a semicolon, several statements in one message                          *)
(***************************************************************************)
BlankTexts == {<<>>, <<" ">>, <<";">>, <<";", ";">>, <<" ", ";", " ">>}
TerminatedVerbs == {
    [sql |-> <<"B", "E", "G", "I", "N", ";">>, bare |-> <<"B", "E", "G", "I", "N">>],
    [sql |-> <<"C", "O", "M", "M", "I", "T", ";">>, bare |-> <<"C", "O", "M", "M", "I", "T">>],
    [sql |-> <<"R", "O", "L", "L", "B", "A", "C", "K", ";">>, bare |-> <<"R", "O", "L", "L", "B", "A", "C", "K">>],
    [sql |-> <<"b", "e", "g", "i", "n", " ", ";">>, bare |-> <<"b", "e", "g", "i", "n">>]}
BareVerbs == {v.bare : v \in TerminatedVerbs}
SeveralStatements == {
    <<"S", "E", "L", "E", "C", "T", " ", "*", " ", "F", "R", "O", "M", " ", "t", "1", ";", " ", "I", "N", "S", "E", "R", "T", " ", "I", "N", "T", "O", " ", "t", "1", " ", "V", "A", "L", "U", "E", "S", " ", "(", "1", ")">>,
    <<"I", "N", "S", "E", "R", "T", " ", "I", "N", "T", "O", " ", "t", "1", " ", "V", "A", "L", "U", "E", "S", " ", "(", "1", ")", ";", "S", "E", "L", "E", "C", "T", " ", "*", " ", "F", "R", "O", "M", " ", "t", "1">>,
    <<"S", "E", "L", "E", "C", "T", " ", "*", " ", "F", "R", "O", "M", " ", "t", "1", ";", " ", "S", "E", "L", "E", "C", " ", "1">>}
PlainTexts == {
    <<"S", "E", "L", "E", "C", "T", " ", "*", " ", "F", "R", "O", "M", " ", "t", "1">>,
    <<"I", "N", "S", "E", "R", "T", " ", "I", "N", "T", "O", " ", "t", "1", " ", "V", "A", "L", "U", "E", "S", " ", "(", "1", ")">>,
    <<"S", "E", "L", "E", "C", " ", "1">>,
    <<"S", "E", "L", "E", "C", "T", " ", "*", " ", "F", "R", "O", "M", " ", "t", "1", ";">>}
TextQueries ==
    BlankTexts \cup {v.sql : v \in TerminatedVerbs} \cup BareVerbs
    \cup SeveralStatements \cup PlainTexts

\* The ClientInfo of the session the texts are sent on
TextClient(status) ==
    [transaction_status |-> status, user |-> "postgres", statement_timeout |-> <<>>]

\* The handlers' answers to the texts, tabulated once
TextSimpleResults ==
    [status \in Statuses, q \in TextQueries, e \in EngineOutcomes |->
        simple_do_query(DefaultAuth, TextClient(status), InitialTimezone, q, e)] @@ <<>>
TextParseResults ==
    [q \in TextQueries, e \in EngineOutcomes |-> parse_sql(q, e)] @@ <<>>

\* The texts do_query hands to SessionContext::sql for a message: the printed
\* first statement when the engine ran it, nothing otherwise
engine_queries(query, out) ==
    IF out.work = "executed" THEN <<statement_to_string(parse(query))>> ELSE <<>>

\* A Query message with one of the texts. A panic of the handler ends the
\* connection's task
TextQuery ==
    \E q \in TextQueries, e \in EngineOutcomes :
        /\ probe.fn = "text"
        /\ probe.alive
        /\ \E out \in {TextSimpleResults[probe.status, q, e]} :
               probe' = [fn |-> "text", flow |-> "simple", sql |-> q, pre |-> probe.status,
                         resp |-> out.resp, ran |-> engine_queries(q, out),
                         status |-> status_after(probe.status, out.resp),
                         alive |-> out.resp.kind # "Panic"]
        /\ UNCHANGED <<sessVars, authVars, catVars>>

\* A Parse message with one of the texts
TextParse ==
    \E q \in TextQueries, e \in EngineOutcomes :
        /\ probe.fn = "text"
        /\ probe.alive
        /\ \E out \in {TextParseResults[q, e]} :
               probe' = [fn |-> "text", flow |-> "parse", sql |-> q, pre |-> probe.status,
                         resp |-> out.resp, ran |-> <<>>,
                         status |-> status_after(probe.status, out.resp),
                         alive |-> out.resp.kind # "Panic"]
        /\ UNCHANGED <<sessVars, authVars, catVars>>

(***************************************************************************)
(* A caller registering users and roles while the task spawned by          *)
(* new_with_config is still filling the maps                               *)
(***************************************************************************)
\* AuthManager::add_user on a user map
add_user(us, name, user) ==
    [u \in DOMAIN us \cup {name} |-> IF u = name THEN user ELSE us[u]]

\* The users the caller registers: postgres with a password, and alice
CallerUsers ==
    [u \in {"postgres", "alice"} |->
        [password_hash |-> <<"p", "w">>,
         roles |-> IF u = "postgres" THEN <<"postgres">> ELSE <<"readonly">>,
         is_superuser |-> u = "postgres", can_login |-> TRUE]]
\* The roles the caller creates, and the grants it gives each, in order
CallerRoles == {"readonly", "analyst"}
CallerGrants == <<Grant("Insert", ResAll), Grant("Update", ResTable(<<"t", "1">>))>>

\* What the caller has registered so far
NoRegistrations == [fn |-> "caller", users |-> <<>>, roles |-> <<>>]

\* The caller's add_user
CallerAddUser ==
    \E name \in DOMAIN CallerUsers :
        /\ probe.fn = "caller"
        /\ name \notin DOMAIN probe.users
        /\ users' = add_user(users, name, CallerUsers[name])
        /\ probe' = [probe EXCEPT !.users = add_user(@, name, CallerUsers[name])]
        /\ UNCHANGED <<roles, chk, boot, sessVars, catVars>>

\* The caller's create_role
CallerCreateRole ==
    \E name \in CallerRoles :
        /\ probe.fn = "caller"
        /\ name \notin DOMAIN probe.roles
        /\ roles' = create_role(roles, name)
        /\ probe' = [probe EXCEPT !.roles = add_role(@, name, <<>>)]
        /\ UNCHANGED <<users, chk, boot, sessVars, catVars>>

\* The caller's grant_permission on a role it has created: the role's next
\* grant, or the 42704 error when the role is gone
CallerGrant ==
    \E name \in CallerRoles :
        /\ probe.fn = "caller"
        /\ name \in DOMAIN probe.roles
        /\ Len(probe.roles[name]) < Len(CallerGrants)
        /\ \E g \in {CallerGrants[Len(probe.roles[name]) + 1]} :
               /\ roles' = grant_permission(roles, name, g.permission, g.resource)
               /\ probe' = IF name \in DOMAIN roles
                           THEN [probe EXCEPT !.roles[name] = Append(@, g)]
                           ELSE probe
        /\ UNCHANGED <<users, chk, boot, sessVars, catVars>>

(***************************************************************************)
(* Login through the wire-level password source                            *)
(***************************************************************************)
\* SimpleAuthSource::get_password: the password the startup handler is to
\* compare with, or the 28P01 error
get_password(cfg, user_map, username) ==
    LET refused == [ok |-> FALSE, password |-> <<>>]
        found(user) ==
            IF user.can_login
            THEN IF cfg.require_passwords
                 THEN IF user.password_hash = <<>> THEN refused
                      ELSE [ok |-> TRUE, password |-> user.password_hash]
                 ELSE IF user.password_hash = <<>>
                 THEN IF cfg.allow_empty_passwords
                      THEN [ok |-> TRUE, password |-> <<>>]
                      ELSE refused
                 ELSE [ok |-> TRUE, password |-> user.password_hash]
            ELSE refused
    IN  IF username \in DOMAIN user_map THEN found(user_map[username]) ELSE refused

\* The startup handler's verdict: the password the client supplied is the one
\* get_password returned
wire_login(cfg, user_map, username, password) ==
    LET verified(expected) == expected.ok /\ password = expected.password
    IN  verified(get_password(cfg, user_map, username))

LoginInputs ==
    {[fn |-> "login", config |-> cfg, user |-> user, username |-> username,
      password |-> password] :
        cfg \in AuthConfigs, user \in LoginUsers, username \in LoginNames,
        password \in OfferedPasswords}

\* One login attempt, decided by the password source and by authenticate
WireLogin ==
    /\ probe.fn = "login"
    /\ probe' = [fn |-> "logged_in", config |-> probe.config, user |-> probe.user,
                 username |-> probe.username, password |-> probe.password,
                 wire |-> wire_login(probe.config, [u \in {"dave"} |-> probe.user],
                                     probe.username, probe.password),
                 returned |-> authenticate_on(probe.config, [u \in {"dave"} |-> probe.user],
                                              probe.username, probe.password)]
    /\ UNCHANGED <<sessVars, authVars, catVars>>

(***************************************************************************)
(* Grants and revocations by an administrator while a check_permission     *)
(* call runs                                                               *)
(***************************************************************************)
\* AuthManager::revoke_permission on a role map
RECURSIVE revoke_grants(_, _, _)
revoke_grants(grants, permission, resource) ==
    IF grants = <<>> THEN <<>>
    ELSE IF Head(grants).permission = permission /\ Head(grants).resource = resource
    THEN revoke_grants(Tail(grants), permission, resource)
    ELSE <<Head(grants)>> \o revoke_grants(Tail(grants), permission, resource)

revoke_permission(rs, name, permission, resource) ==
    IF name \in DOMAIN rs
    THEN [rs EXCEPT ![name].grants = revoke_grants(@, permission, resource)]
    ELSE rs

\* A user holding two roles, added with add_user
SnapshotUsers ==
    add_user(DefaultUsers, "carol",
             [password_hash |-> <<>>, roles |-> <<"readonly", "readwrite">>,
              is_superuser |-> FALSE, can_login |-> TRUE])

\* The users whose permission is checked, and the grants the administrator edits
SnapshotCheckUsers == {"carol", "alice", "postgres", "ghost"}
AdminPermissions == {"Select", "Drop"}

\* No check_permission call made yet
NoCheck == [fn |-> "check_permission", user |-> "", answers |-> {}]

\* The answer the maps rs give, as one evaluation, to the running call
answer_in(us, rs) ==
    check_permission([users |-> us, roles |-> rs], probe.user, chk.permission,
                     chk.resource)

\* A check_permission call begins: the answer of the maps at the call is noted
SnapshotStart(username, permission) ==
    /\ probe.fn = "check_permission"
    /\ chk.pc \in {"idle", "done"}
    /\ chk' = check_start(users, username, permission, ResAll)
    /\ probe' = [probe EXCEPT !.user = username,
                    !.answers = {check_permission([users |-> users, roles |-> roles],
                                                  username, permission, ResAll)}]
    /\ UNCHANGED <<users, roles, boot, sessVars, catVars>>

\* The administrator's grant_permission; while a call runs the answer of the
\* new maps is noted
AdminGrant(name, permission) ==
    /\ probe.fn = "check_permission"
    /\ name \in DOMAIN roles
    /\ ~\E i \in DOMAIN roles[name].grants :
           roles[name].grants[i] = Grant(permission, ResAll)
    /\ \E rs \in {grant_permission(roles, name, permission, ResAll)} :
           /\ roles' = rs
           /\ probe' = IF chk.pc = "running"
                       THEN [probe EXCEPT !.answers = @ \cup {answer_in(users, rs)}]
                       ELSE probe
    /\ UNCHANGED <<users, chk, boot, sessVars, catVars>>

\* The administrator's revoke_permission
AdminRevoke(name, permission) ==
    /\ probe.fn = "check_permission"
    /\ name \in DOMAIN roles
    /\ \E i \in DOMAIN roles[name].grants :
           roles[name].grants[i] = Grant(permission, ResAll)
    /\ \E rs \in {revoke_permission(roles, name, permission, ResAll)} :
           /\ roles' = rs
           /\ probe' = IF chk.pc = "running"
                       THEN [probe EXCEPT !.answers = @ \cup {answer_in(users, rs)}]
                       ELSE probe
    /\ UNCHANGED <<users, chk, boot, sessVars, catVars>>

Init == InitSession /\ InitAuth /\ InitCatalog /\ probe = NoProbe

\* One client using every message of both query flows
NextSession ==
    \/ \E u \in StartupUsers : Startup("s1", u)
    \/ Disconnect("s1")
    \/ \E q \in Queries, e \in EngineOutcomes : SimpleQuery("s1", q, e)
    \/ \E q \in ExtQueries, e \in EngineOutcomes : ExtParse("s1", q, e)
    \/ ExtDescribe("s1")
    \/ \E e \in EngineOutcomes : ExtExecute("s1", e)
SpecSession == Init /\ [][NextSession]_vars

\* Two clients of one service sending SET, SHOW and transaction commands
NextShared ==
    \E s \in Sessions :
        \/ \E u \in StartupUsers : Startup(s, u)
        \/ Disconnect(s)
        \/ \E q \in SharedQueries, e \in EngineOutcomes : SimpleQuery(s, q, e)
SpecShared == Init /\ [][NextShared]_vars

\* The administrator editing role inheritance while permission checks run
NextAuth ==
    \/ \E c \in AuthRoles, p \in AuthRoles : AddRoleInheritance(c, p)
    \/ \E u \in CheckUsers, p \in CheckPermissions : CheckStart(u, p, ResAll)
    \/ CheckCall
    \/ CheckReturn
SpecAuth == Init /\ [][NextAuth]_vars /\ WF_vars(CheckCall) /\ WF_vars(CheckReturn)

\* Catalog scans by concurrent tasks while schemas and tables come and go
NextCatalog ==
    \/ \E p \in Scanners, kind \in CachedScans : ScanBegin(p, kind)
    \/ \E p \in Scanners, tables \in Orders(live \cap Tables) : ScanBody(p, tables)
    \/ \E p \in Scanners : ScanRetain(p)
    \/ \E p \in Scanners : ScanFinish(p)
    \/ \E tables \in Orders(live \cap Tables) : AttributeScan(tables)
    \/ RegisterSchema
    \/ \E k \in Tables : RegisterTable(k)
    \/ \E k \in Tables \cup {TheSchema} : Deregister(k)
SpecCatalog == Init /\ [][NextCatalog]_vars


(***************************************************************************)
(* Properties                                                              *)
(***************************************************************************)
\* The class of a message in the transaction table of the session layer
Class(sql) ==
    LET q == trim(to_lowercase(sql))
    IN  IF q \in BeginWords THEN "begin"
        ELSE IF q \in CommitWords \cup RollbackWords THEN "end"
        ELSE "normal"

\* The transaction table: the status after a message of a class, sent in
\* status pre, that failed or not
TableNext(pre, class, failed) ==
    CASE class = "begin" -> IF pre = "Idle" THEN "Transaction" ELSE pre
      [] class = "end" -> "Idle"
      [] class = "normal" -> IF failed /\ pre = "Transaction" THEN "Error" ELSE pre

\* C1: after every BEGIN, COMMIT, ROLLBACK or normal statement, failing or not,
\* the session's transaction status is the one the transition table gives for
\* the status it was sent in.
C1_StatusFollowsTable ==
    last.flow \in {"simple", "execute"} =>
        txn[last.s] = TableNext(last.pre, Class(last.sql), last.resp.kind = "Error")

\* A normal statement failed inside a transaction block and the block is now failed
C1_Witness ==
    /\ last.flow = "simple"
    /\ last.pre = "Transaction"
    /\ Class(last.sql) = "normal"
    /\ last.resp.kind = "Error"
    /\ txn[last.s] = "Error"

\* C2: a command other than COMMIT, END, ROLLBACK and ABORT that arrives while the
\* session is in the failed state is answered with SQLSTATE 25P01.
C2_FailedRefusesAll ==
    (/\ last.flow \in {"simple", "execute"}
     /\ last.pre = "Error"
     /\ trim(to_lowercase(last.sql)) \notin CommitWords \cup RollbackWords)
        => (last.resp.kind = "Error" /\ last.resp.code = "25P01")

\* What SHOW and ReadyForQuery report on a session
Reported(s) ==
    <<handle_show_statement_structured(Client(s), timezone, <<Kw.timezone>>).value,
      handle_show_statement_structured(Client(s), timezone, <<Kw.statement_timeout>>).value,
      txn[s]>>

\* C3: a message handled for one session leaves unchanged what SHOW and
\* ReadyForQuery report on every other open session.
C3_SessionsIsolated ==
    [][\A t \in Sessions :
         (phase[t] = "ready" /\ phase'[t] = "ready" /\ last'.s # t)
            => Reported(t)' = Reported(t)]_vars

\* C4: a statement whose required permission the user lacks is answered with
\* SQLSTATE 42501 and causes no planning or execution, whichever message
\* (Query, Parse, Describe, Execute) carries it.
C4_DeniedDoesNoWork ==
    (/\ last.flow \in {"simple", "parse", "describe", "execute"}
     /\ ~check_query_permission(Auth, meta_user[last.s], last.sql))
        => (last.resp.kind = "Error" /\ last.resp.code = "42501" /\ last.work = "none")

\* The passwords a client may offer
Passwords == {<<>>, <<"p", "w">>}

\* C5: a session is past startup (AuthenticationOk and ReadyForQuery sent) only if
\* its startup user passes the authentication rules with some password.
C5_ReadyOnlyIfAuthenticated ==
    \A s \in Sessions :
        phase[s] = "ready" => \E password \in Passwords : authenticate(meta_user[s], password)

\* C6: every check_permission call that has started returns, whatever the role
\* inheritance graph is.
C6_CheckTerminates == (chk.pc = "running") ~> (chk.pc = "done")

\* C7: an object that two scans report, and that stayed live in between, gets
\* the same OID from both.
C7_OidsStable ==
    [][\A k \in Keys : (seen[k] # 0 /\ seen'[k] # 0) => seen'[k] = seen[k]]_vars

C9_AttrelidIsClassOid ==
    \A k \in Tables : (seen[k] # 0 /\ attseen[k] # 0) => attseen[k] = seen[k]

\* C10: while one scan is between taking the cache and its final update, the
\* cache partly rebuilt or not, no other scan is inside its own.
C10_ScansExclusive ==
    \A p, q \in Scanners :
        p # q => /\ scan[p].pc = "idle" \/ scan[q].pc = "idle"
                 /\ scan[p].pc # "idle" => lock = p

\* A scan has cut the cache down and not yet added its own entries, while the
\* other task has a scan to run
C10_Witness ==
    \E p \in Scanners : scan[p].pc = "retained" /\ lock = p /\ oid_cache # NoOids

\* Construction of an auth manager followed by wait_for_initialization
NextBoot == BootTask \/ WaitPoll
InitConstruction == InitSession /\ InitBoot /\ InitCatalog /\ probe = NoProbe
SpecBoot == InitConstruction /\ [][NextBoot]_vars

\* C11: once wait_for_initialization has returned, the user map holds the
\* postgres superuser and the role map holds postgres, readonly, readwrite and
\* dbadmin with their grants, whatever the spawned task has done by then
C11_InitializedAfterWait ==
    boot.waited = "returned" =>
        /\ "postgres" \in DOMAIN users
        /\ users["postgres"].is_superuser
        /\ \A r \in DOMAIN DefaultRoles :
              r \in DOMAIN roles /\ roles[r].grants = DefaultRoles[r].grants

\* Direct calls of the library
NextCalls ==
    \/ EngineWork
    \/ SetTimeout
    \/ StatementCheck
    \/ Authenticate
SpecCalls == Init /\ [][NextCalls]_vars

\* C12: with a stored timeout T > 0, a statement whose engine work takes longer
\* than T in all is answered with SQLSTATE 57014, in both flows
C12_TimeoutAborts ==
    /\ probe.fn = "engine_work"
    /\ get_statement_timeout(probe.statement_timeout) > 0
    /\ probe.total_ms > get_statement_timeout(probe.statement_timeout)
    => probe.resp.code = "57014"

\* C13: SET statement_timeout with no value or with a value that is no
\* duration is answered with SQLSTATE 42601 and leaves the stored timeout alone
C13_InvalidRejected ==
    probe.fn = "set_timeout" /\ probe.input.class \in {"invalid", "missing"}
    => probe.resp.code = "42601" /\ probe.after = probe.before

\* C14: after SET statement_timeout with a valid value the stored timeout is that
\* value in ms and SHOW returns '<ms>ms'; after 0 nothing is stored and SHOW
\* returns '0'; through every entry point
C14_ValidStored ==
    probe.fn = "set_timeout" =>
        /\ probe.input.class = "valid" =>
              /\ get_statement_timeout(probe.after) = probe.input.ms
              /\ probe.show.value = to_string(probe.input.ms) \o Kw.ms
        /\ probe.input.class = "zero" =>
              probe.after = <<>> /\ probe.show.value = <<"0">>

\* Calls of check_permission on an auth manager whose maps are set up
NextPerm == CheckPermission
InitChecks == InitSession /\ InitPerm /\ InitCatalog /\ probe = NoProbe
SpecPerm == InitChecks /\ [][NextPerm]_vars

\* The roles reachable from the roles of S through inherited_roles
RECURSIVE ReachableRoles(_)
ReachableRoles(S) ==
    LET more == S \cup UNION {{roles[r].inherited_roles[i] :
                                   i \in DOMAIN roles[r].inherited_roles} :
                              r \in S \cap DOMAIN roles}
    IN  IF more = S THEN S ELSE ReachableRoles(more)

\* A grant that matches the request: its permission is the requested one or
\* All, its resource is the requested one, All, or Schema(s) for Table("s.t")
MatchingGrant(grant) ==
    /\ grant.permission \in {probe.permission, "All"}
    /\ \/ grant.resource = probe.resource
       \/ grant.resource.kind = "All"
       \/ /\ grant.resource.kind = "Schema"
          /\ probe.resource.kind = "Table"
          /\ Len(probe.resource.name) > Len(grant.resource.name)
          /\ SubSeq(probe.resource.name, 1, Len(grant.resource.name) + 1)
                = grant.resource.name \o <<".">>

\* The roles that exist among those reachable from the asked user's roles
RolesOfAsked ==
    ReachableRoles({users[probe.username].roles[i] :
                        i \in DOMAIN users[probe.username].roles}) \cap DOMAIN roles

SomeRoleHoldsGrant ==
    \E r \in RolesOfAsked : \E i \in DOMAIN roles[r].grants : MatchingGrant(roles[r].grants[i])

C16_TableGrantAllows ==
    /\ probe.fn = "statement_check"
    /\ probe.granted = probe.statement.permission
    /\ probe.table_name = <<"t", "1">>
    => probe.resp.code # "42501"

InitRewrite == InitSession /\ InitAuth /\ InitCatalog /\ probe \in ParseInputs
NextRewrite ==
    \/ MaybeReplaceTokens
    \/ ParserParse
    \/ \E path \in SessionPaths : SessionParse(path)
SpecRewrite == InitRewrite /\ [][NextRewrite]_vars

\* C18: an input that is a blacklist entry's SQL, with any token for each
\* placeholder and any whitespace or semicolons around and between its tokens,
\* comes out as the tokens of the entry's replacement, whitespace and
\* semicolons aside
C18_EntryReplaced ==
    /\ probe.fn = "maybe_replace_tokens"
    /\ filter_tokens(probe.before) = <<>>
    /\ filter_tokens(probe.after) = <<>>
    => filter_tokens(probe.output) = blacklist[probe.k].replacement

\* An entry with a placeholder, written with a number in its place, semicolons
\* between its tokens and whitespace before it, has been replaced
C18_Witness ==
    /\ probe.fn = "maybe_replace_tokens"
    /\ probe.before = <<" ">>
    /\ probe.after = <<";">>
    /\ \E i \in DOMAIN blacklist[probe.k].pattern : blacklist[probe.k].pattern[i] = "$1"
    /\ \E i \in DOMAIN probe.tokens : probe.tokens[i] = "16384"
    /\ \E i \in 2..(Len(probe.tokens) - 1) : probe.tokens[i] = ";"
    /\ filter_tokens(probe.output) = blacklist[probe.k].replacement

\* C19: when the pattern covers only a part of the input, the output is the
\* tokens before it, then the replacement, then the tokens after it
C19_PartialMatch ==
    /\ probe.fn = "maybe_replace_tokens"
    /\ filter_tokens(probe.before) # <<>> \/ filter_tokens(probe.after) # <<>>
    => probe.output = probe.before \o blacklist[probe.k].replacement \o probe.after

\* A pattern between other tokens on both sides has been replaced
C19_Witness ==
    /\ probe.fn = "maybe_replace_tokens"
    /\ filter_tokens(probe.before) # <<>>
    /\ filter_tokens(probe.after) # <<>>
    /\ probe.output # probe.tokens
    /\ probe.output = probe.before \o blacklist[probe.k].replacement \o probe.after

\* The order of the AST rules in the specification; the fifth is RemoveQualifier
\* or RemoveTableFunctionQualifier
RuleOrder ==
    <<{"AliasDuplicatedProjectionRewrite"}, {"ResolveUnqualifiedIdentifer"},
      {"RewriteArrayAnyAllOperation"}, {"PrependUnqualifiedPgTableName"},
      {"RemoveQualifier", "RemoveTableFunctionQualifier"}, {"RemoveUnsupportedTypes"},
      {"FixArrayLiteral"}, {"CurrentUserVariableToSessionUserFunctionCall"},
      {"FixCollate"}, {"RemoveSubqueryFromProjection"}, {"FixVersionColumnName"}>>
Blacklists == {"maybe_replace_tokens", "BlacklistSqlRewriter"}

RulePosition(rule) == CHOOSE i \in DOMAIN RuleOrder : rule \in RuleOrder[i]

\* C20: on every path the blacklist is applied first, and the AST rules that
\* follow are rules of the specification's list, applied in the order of that list
C20_RuleOrder ==
    probe.fn = "parse" =>
        /\ probe.statement.applied # <<>>
        /\ probe.statement.applied[1] \in Blacklists
        /\ \A i \in 2..Len(probe.statement.applied) :
              \E j \in DOMAIN RuleOrder : probe.statement.applied[i] \in RuleOrder[j]
        /\ \A i, j \in 2..Len(probe.statement.applied) :
              i < j => RulePosition(probe.statement.applied[i])
                          < RulePosition(probe.statement.applied[j])

\* Identifiers through quote_ident and parse_ident
InitIdent == InitSession /\ InitAuth /\ InitCatalog /\ probe \in IdentInputs
NextIdent ==
    \/ ParseQuoted
    \/ ParseParts
    \/ ParseText
SpecIdent == InitIdent /\ [][NextIdent]_vars

\* C21: parse_ident(quote_ident(i) || '.' || quote_ident(j)) in non-strict
\* mode returns the list [i, j], for all identifiers i and j
C21_QuoteParseRoundTrip ==
    probe.fn = "parse_quoted" =>
        ~probe.returned.error /\ probe.returned.list = <<probe.i, probe.j>>

\* C22: a text of non-empty parts separated by single dots, each part quoted
\* (with "" for a quote) or not, parses to the list of its parts in strict and
\* in non-strict mode
C22_PartsParsed ==
    probe.fn = "parse_parts" =>
        /\ ~probe.returned.error
        /\ probe.returned.list = [k \in DOMAIN probe.parts |-> probe.parts[k].text]

\* A text ends inside a quoted part when it holds an odd number of double quotes
Unterminated(text) == Cardinality({k \in DOMAIN text : text[k] = "\""}) % 2 = 1

\* C23: parse_ident returns an error for every text with an unterminated
\* double quote, in strict and in non-strict mode
C23_UnterminatedIsError ==
    probe.fn = "parse_text" /\ Unterminated(probe.text) => probe.returned.error

\* Prepared statements through Describe and Bind
InitPrepared ==
    /\ InitSession /\ InitAuth /\ InitCatalog
    /\ probe \in {[fn |-> "prepared", plan |-> plan] : plan \in Plans}
NextPrepared ==
    \/ DescribeStatement
    \/ BindParameters
    \/ InferParameterTypes
SpecPrepared == InitPrepared /\ [][NextPrepared]_vars

\* C24: Describe returns the parameter types in the order $1, $2, ..., $n, and
\* Bind decodes the k-th value as the type of $k, for every n
C24_NumericOrder ==
    /\ probe.fn = "describe" =>
          \A k \in 1..probe.plan.n :
              probe.param_types[k] = pg_type(probe.plan.param_types[placeholder_id(k)])
    /\ probe.fn = "bind" =>
          \A k \in 1..probe.plan.n :
              probe.decoded_as[k] = probe.plan.param_types[placeholder_id(k)]

\* The type of a Cast($k, T) of the plan, or "None"
CastTypeOf(plan, k) ==
    IF \E i \in DOMAIN plan.exprs :
           plan.exprs[i].kind = "Cast" /\ plan.exprs[i].id = placeholder_id(k)
    THEN plan.exprs[CHOOSE i \in DOMAIN plan.exprs :
                        plan.exprs[i].kind = "Cast"
                        /\ plan.exprs[i].id = placeholder_id(k)].data_type
    ELSE "None"

\* C25: for each placeholder $k, Describe reports the engine's type when it
\* has one, else the type of a Cast($k, T) of the plan, else UNKNOWN; whatever
\* the position of $k in the response is
C25_DescribedType ==
    probe.fn = "describe" =>
        \A k \in 1..probe.plan.n :
            \E i \in DOMAIN probe.param_types :
                probe.param_types[i] =
                    pg_type(IF probe.plan.param_types[placeholder_id(k)] # "None"
                            THEN probe.plan.param_types[placeholder_id(k)]
                            ELSE CastTypeOf(probe.plan, k))

\* The row encoder of one record batch, polled by the task that streams it
InitEncoder ==
    /\ InitSession /\ InitAuth /\ InitCatalog
    /\ probe \in {[fn |-> "row_encoder", self |-> RowEncoder_new(b.rb, b.fields),
                   yielded |-> <<>>, panicked |-> FALSE] : b \in Batches}
NextEncoder == NextRow
SpecEncoder == InitEncoder /\ [][NextEncoder]_vars

\* The value of row k (from 0) of column c of the encoder's batch, encoded
ValueOf(self, c, k) ==
    encode_value(<<>>, self.rb.columns[c], k, self.fields[c]).encoder[1]

\* C26: every DataRow that next_row returns for row k holds one encoded value
\* per field-info entry, in the order of the field info, each from row k of
\* the column of that entry
C26_RowHoldsEveryField ==
    probe.fn = "row_encoder" =>
        \A j \in DOMAIN probe.yielded :
            probe.yielded[j].kind = "Ok" =>
                /\ Len(probe.yielded[j].row) = Len(probe.self.fields)
                /\ \A c \in DOMAIN probe.self.fields :
                       probe.yielded[j].row[c] = ValueOf(probe.self, c, probe.yielded[j].idx)


\* Row k (from 0) of an array cannot be encoded for the field info: a string
\* the conversion fails on, or a struct that is not null and has a parent
\* type that is no composite, a field count other than the composite's, or
\* a field that cannot be encoded
RECURSIVE FailsToEncode(_, _, _)
FailsToEncode(arr, k, pg_field) ==
    IF arr.data_type = "Struct"
    THEN /\ ~arr.nulls[k + 1]
         /\ \/ pg_field.kind # "Composite"
            \/ Len(arr.columns) # Len(pg_field.fields)
            \/ \E i \in DOMAIN arr.columns :
                   FailsToEncode(arr.columns[i], k, pg_field.fields[i])
    ELSE arr.values[k + 1] = "bad"

\* C27: a value that cannot be encoded, a field of a struct column and a
\* struct of another field count than its composite type included, makes
\* next_row return an error, and no call panics
C27_FailureIsError ==
    probe.fn = "row_encoder" =>
        \A j \in DOMAIN probe.yielded :
            /\ probe.yielded[j].kind # "panic"
            /\ ( /\ probe.yielded[j].kind # "None"
                 /\ \E c \in DOMAIN probe.self.fields :
                        FailsToEncode(probe.self.rb.columns[c], probe.yielded[j].idx,
                                      probe.self.fields[c])
                 => probe.yielded[j].kind = "Err" )

\* C28: on a batch of n rows next_row yields at most n results and then
\* None, and once it has yielded an error every later call yields None
C28_StreamEnds ==
    probe.fn = "row_encoder" =>
        /\ Cardinality({j \in DOMAIN probe.yielded : probe.yielded[j].kind # "None"})
               <= num_rows(probe.self.rb)
        /\ \A j, l \in DOMAIN probe.yielded :
               j < l /\ probe.yielded[j].kind \in {"Err", "None"}
                   => probe.yielded[l].kind = "None"


\* encode_list called on arrays of unsigned integers and of Decimal256
InitList ==
    /\ InitSession /\ InitAuth /\ InitCatalog
    /\ \/ probe \in UnsignedInputs
       \/ probe \in DecimalInputs
NextList == EncodeUnsignedList \/ EncodeDecimalList
SpecList == InitList /\ [][NextList]_vars

\* The number a sequence of decimal digits denotes
AllDigits(s) == \A k \in DOMAIN s : \E d \in DOMAIN Digits : Digits[d] = s[k]

\* The text denotes v * 10^(-s): an optional sign first, one digit or more,
\* and for s > 0 a point followed by exactly s digits; the digits read as
\* one number are the magnitude of v
Denotes(text, v, s) ==
    LET negative == Len(text) > 0 /\ text[1] = "-"
        body == IF negative THEN Tail(text) ELSE text
        point == Len(body) - s
        digits == IF s = 0 THEN body
                  ELSE SubSeq(body, 1, point - 1) \o SubSeq(body, point + 1, Len(body))
    IN  /\ Len(body) >= (IF s = 0 THEN 1 ELSE s + 2)
        /\ s > 0 => body[point] = "."
        /\ AllDigits(digits)
        /\ parse_u64(digits) = (IF v < 0 THEN 0 - v ELSE v)
        /\ negative <=> v < 0

\* C29: the text of every non-null Decimal256 list element of unscaled value
\* v and scale s denotes v * 10^(-s), with the sign first, at least one digit
\* before the point and exactly s digits after it
C29_DecimalText ==
    probe.fn = "encoded_decimal" =>
        \A k \in DOMAIN probe.arr :
            probe.arr[k].some =>
                /\ probe.sent[k].some
                /\ Denotes(probe.sent[k].val, probe.arr[k].val, probe.data_type.scale)

\* The number an integer of a type denotes, as its sign and the limbs of its
\* magnitude: the bits of an unsigned type, and the two's complement of the
\* bits of a signed type whose top bit is set
RECURSIVE add_one(_, _, _)
add_one(type, bits, k) ==
    IF k = 0 THEN bits
    ELSE IF bits[k] + 1 < limb_base(type, k) THEN [bits EXCEPT ![k] = @ + 1]
    ELSE add_one(type, [bits EXCEPT ![k] = 0], k - 1)
NumberOf(val) ==
    IF Signed(val.type) /\ 2 * val.bits[1] >= limb_base(val.type, 1)
    THEN [negative |-> TRUE,
          magnitude |-> add_one(val.type,
                                [k \in DOMAIN val.bits |->
                                    limb_base(val.type, k) - 1 - val.bits[k]],
                                Len(val.bits))]
    ELSE [negative |-> FALSE, magnitude |-> val.bits]

\* C30: every unsigned list element is sent as the number it is, for UInt8,
\* UInt16, UInt32 and UInt64 alike
C30_UnsignedKept ==
    probe.fn = "encoded_unsigned" =>
        \A k \in DOMAIN probe.arr :
            probe.arr[k].some =>
                /\ probe.sent[k].some
                /\ NumberOf(probe.sent[k].val) = NumberOf(probe.arr[k].val)


\* pg_class asked about one registered table
InitClass == InitSession /\ InitAuth /\ InitCatalog /\ probe \in ClassInputs
NextClass == PgClassRow
SpecClass == InitClass /\ [][NextClass]_vars

SystemSchemas == {<<"p", "g", "_", "c", "a", "t", "a", "l", "o", "g">>, <<"i", "n", "f", "o", "r", "m", "a", "t", "i", "o", "n", "_", "s", "c", "h", "e", "m", "a">>}

\* C31: relkind is 'v' for a table of a view provider outside the system
\* schemas and 'r' for every other table, those of pg_catalog and
\* information_schema included whatever their name or provider
C31_RelKind ==
    probe.fn = "pg_class_row" =>
        probe.relkind = (IF probe.table = "ViewTable" /\ probe.schema_name \notin SystemSchemas
                         THEN "v" ELSE "r")


\* C32: an INSERT the engine has run, sent as a Query message or executed
\* from a prepared statement, is answered with an Execution response carrying
\* the INSERT tag, never with a row stream
C32_InsertTag ==
    /\ last.flow \in {"simple", "execute"}
    /\ starts_with(trim(to_lowercase(last.sql)), Kw.insert_into)
    /\ last.work = "executed"
    => last.resp = Resp("Execution", "INSERT")


\* The sessions of one service setting and showing the time zone
InitZone ==
    /\ InitSession /\ InitAuth /\ InitCatalog
    /\ probe \in {[fn |-> "zone", entry |-> e, timezone |-> InitialTimezone,
                   client_timezone |-> [s \in Sessions |-> InitialTimezone],
                   x |-> [s \in Sessions |-> <<>>], shown |-> NoShow] :
                     e \in ZoneEntries}
NextZone == SetTimeZone \/ ShowTimeZone
SpecZone == InitZone /\ [][NextZone]_vars

\* C33: SHOW TIME ZONE on a session that has set the time zone returns the
\* value of its latest SET, quotes stripped and letter case kept
C33_ShowReturnsSet ==
    probe.fn = "zone" /\ probe.shown.s # "none" /\ probe.shown.x # <<>>
        => probe.shown.value = probe.shown.x


\* One session sent texts with semicolons
InitText ==
    /\ InitSession /\ InitAuth /\ InitCatalog
    /\ probe = [fn |-> "text", flow |-> "none", sql |-> <<>>, pre |-> "Idle",
                resp |-> RespNone, ran |-> <<>>, status |-> "Idle", alive |-> TRUE]
NextText == TextQuery \/ TextParse
SpecText == InitText /\ [][NextText]_vars

\* C34: a Query or Parse message whose text is empty, blank or only
\* semicolons is answered without a panic, and the session serves on
C34_BlankAnswered ==
    probe.fn = "text" /\ probe.flow # "none" /\ probe.sql \in BlankTexts
        => probe.resp.kind # "Panic" /\ probe.alive

\* C35: a transaction verb followed by a semicolon, sent as a Query message,
\* gets the response of the bare verb in the same status and leaves the
\* status the bare verb leaves
C35_TerminatedVerb ==
    probe.fn = "text" /\ probe.flow = "simple" =>
        \A v \in TerminatedVerbs :
            probe.sql = v.sql =>
                /\ probe.resp = try_respond_transaction_statements(probe.pre,
                                                                   to_lowercase(v.bare))
                /\ probe.status = status_after(probe.pre,
                                      try_respond_transaction_statements(probe.pre,
                                                                         to_lowercase(v.bare)))

\* C39: a Query message of several statements is rejected with an error, or
\* every statement of it is run, in order
C39_EveryStatementRuns ==
    probe.fn = "text" /\ probe.flow = "simple" /\ probe.sql \in SeveralStatements
        /\ probe.resp.kind # "Error"
        => /\ probe.resp.kind # "Panic"
           /\ probe.ran = [k \in DOMAIN parse_statements(probe.sql).statements |->
                              statement_to_string(parse_statements(probe.sql).statements[k])]


\* new_with_config has returned; the caller registers users and roles while
\* the spawned task runs
InitRegister ==
    /\ InitSession /\ InitCatalog
    /\ users = <<>>
    /\ roles = <<>>
    /\ chk = Idle
    /\ boot = [pc |-> 1, polls |-> 0, waited |-> "returned"]
    /\ probe = NoRegistrations
NextRegister == BootTask \/ CallerAddUser \/ CallerCreateRole \/ CallerGrant
SpecRegister == InitRegister /\ [][NextRegister]_vars

\* C36: a user the caller has registered keeps the record the caller gave it,
\* and a role the caller has created keeps every grant the caller gave it,
\* whatever the spawned task does
C36_RegistrationsStand ==
    probe.fn = "caller" =>
        /\ \A n \in DOMAIN probe.users :
               n \in DOMAIN users /\ users[n] = CallerUsers[n]
        /\ \A n \in DOMAIN probe.roles :
               /\ n \in DOMAIN roles
               /\ \A i \in DOMAIN probe.roles[n] :
                      \E j \in DOMAIN roles[n].grants : roles[n].grants[j] = probe.roles[n][i]


\* One login attempt for each user record, AuthConfig and supplied password
InitLogin == InitSession /\ InitAuth /\ InitCatalog /\ probe \in LoginInputs
NextLogin == WireLogin
SpecLogin == InitLogin /\ [][NextLogin]_vars

\* C37: the wire-level password source accepts a login exactly when
\* AuthManager::authenticate accepts it
C37_SourcesAgree ==
    probe.fn = "logged_in" => (probe.wire <=> probe.returned)

\* Permission checks of a user holding two roles while the administrator
\* grants and revokes
InitSnapshot ==
    /\ InitSession /\ InitCatalog
    /\ users = SnapshotUsers
    /\ roles = DefaultRoles
    /\ chk = Idle
    /\ boot = [pc |-> Len(BootSteps) + 1, polls |-> 0, waited |-> "returned"]
    /\ probe = NoCheck
NextSnapshot ==
    \/ \E u \in SnapshotCheckUsers, p \in AdminPermissions : SnapshotStart(u, p)
    \/ CheckCall
    \/ CheckReturn
    \/ \E r \in AuthRoles, p \in AdminPermissions : AdminGrant(r, p)
    \/ \E r \in AuthRoles, p \in AdminPermissions : AdminRevoke(r, p)
SpecSnapshot == InitSnapshot /\ [][NextSnapshot]_vars

\* C38: the answer a check_permission call returns is the answer that some
\* state of the user and role maps held between its call and its return gives
C38_ConsistentSnapshot ==
    chk.pc = "done" /\ probe.user # "" => chk.result \in probe.answers

====
